---- MODULE Spec2Model ----
(***************************************************************************)
(* A model of the chianti data pipeline: the filename iterators            *)
(* (SequentialIterator, RandomIterator, WeightedRandomIterator) and the    *)
(* prefetching chianti::DataProvider (one prefill thread, one consumer,    *)
(* one batch slot guarded by batchAccessMutex and the condition variable   *)
(* cv, and an OpenMP parallel loop over the pairs of a batch).             *)
(*                                                                         *)
(* Indices are 0-based as in the C++ source.  A filename pair is named by  *)
(* its index in the container.                                             *)
(***************************************************************************)
EXTENDS Integers, Sequences, FiniteSets, TLC

(***************************************************************************)
(* Bounds of the model.                                                    *)
(***************************************************************************)
\* number of filename pairs in the iterator's container
NumFiles == 3
\* DataProvider::batchSize
BatchSize == 2
\* how many times the consumer calls DataProvider::next()
MaxTake == 3
\* how many times the consumer calls DataProvider::reset()
MaxResets == 1
\* how many emissions of a stand-alone iterator are recorded per run
MaxEmit == 4
\* how many times a stand-alone iterator is reset
MaxIterResets == 2

\* number of seeds the iterators are constructed with
NumSeeds == 2

\* number of states of the stand-in for std::mt19937 (a full-period LCG)
RngMod == 8

Files == 0 .. (NumFiles - 1)
Slots == 0 .. (BatchSize - 1)
RngStates == 0 .. (RngMod - 1)
Seeds == 0 .. (NumSeeds - 1)

NoThread == "none"
Worker == "worker"
Consumer == "consumer"

(***************************************************************************)
(* State.                                                                  *)
(***************************************************************************)
VARIABLES
    \* ---- iterator (include/chianti/iterators.h)
    iterKind,        \* "Sequential" | "Random" | "WeightedRandom"
    nextElement,     \* SequentialIterator::nextElement, NumFiles = end()
    keys,            \* RandomIterator::keys, a function over 0 .. NumFiles-1
    nextKey,         \* RandomIterator::nextKey as an index, NumFiles = end()
    g,               \* the state of the random number generator g
    seed,            \* the seed member
    weights,         \* WeightedRandomIterator::weights after normalizeWeights
    \* ---- provider (include/chianti/providers.h)
    pcC,             \* position of the consumer thread
    pcW,             \* position of the prefill thread in loadBatch
    batch,           \* DataProvider::batch
    batchAccessMutex,\* holder of DataProvider::batchAccessMutex
    cvWaiters,       \* threads blocked in cv.wait
    terminateThread, \* DataProvider::terminateThread
    omp,             \* per iteration i of the parallel for: its position
    aborted,         \* std::terminate was called (uncaught exception in a thread)
    \* ---- history (ghost) variables
    resets,          \* number of completed iterator resets issued through the provider
    published,       \* number of batches the worker has completed and unlocked
    taken,           \* number of batches returned by DataProvider::next()
    discarded,       \* number of batches released by ~DataProvider
    lastTaken,       \* the batch returned by the latest DataProvider::next()
    staleAfter,      \* per reset r: number of batches taken after reset r that hold
                     \* a filename pulled before reset r
    recording,       \* whether the run keeps the two histories below
    delivered,       \* the batches returned by DataProvider::next(), in order
    resetAt,         \* for each reset, the number of batches returned before it
    \* ---- stand-alone iterator runs (ghost)
    emitted,         \* emissions of the run since construction or the last reset
    firstRun,        \* emissions of the run that followed construction
    iterResets,      \* number of resets of the stand-alone iterator
    \* ---- next() of an iterator called from several threads
    accessMutex,     \* holder of BaseIterator::accessMutex
    caller,          \* per calling thread: its position inside next()
    retVal,          \* per calling thread: the element and position it has read
    \* ---- an iterator over a container of any size, from its construction
    size,            \* container->size()
    wInput,          \* the weights handed to WeightedRandomIterator
    ctor,            \* "pending" | "ok" | "threw": outcome of the constructor
    thrown,          \* number of next() calls that threw "Container is empty."
    lastDraw,        \* the value drawn by the latest WeightedRandomIterator::next
    \* ---- DataProvider::encode_onehot over the targets of one batch
    numClasses,      \* DataProvider::numClasses
    labels,          \* per batch item, per pixel: the 8-bit label of the target
    targets,         \* batch->targets.data, the flat one-hot tensor
    overrun,         \* a store went past the end of targets.data
    encoded,         \* the batch items encode_onehot has run for
    \* ---- SubsampleAugmentor::resizeTarget over one block of the target
    factor,          \* SubsampleAugmentor::factor
    histogram,       \* int histogram[256]
    pixelsRead,      \* pixels of the block counted so far
    voted,           \* the pixel written to tNew, -1 before
    \* ---- one record per further component, <<>> while it is not running
    translation,     \* a run of TranslationAugmentor::augment
    crop,            \* a run of CropAugmentor::augment
    config,          \* the construction of a DataProvider from its arguments
    remap,           \* a run of the Cityscapes label transformation
    tensor,          \* a Tensor and the operations applied to it
    legacy           \* the legacy Chianti::DataProvider and its detached threads

iterVars == <<iterKind, nextElement, keys, nextKey, g, seed, weights>>
provVars == <<pcC, pcW, batch, batchAccessMutex, cvWaiters, terminateThread,
              omp, aborted>>
histVars == <<resets, published, taken, discarded, lastTaken, staleAfter, recording, delivered,
              resetAt>>
lockVars == <<accessMutex, caller, retVal>>
sizedVars == <<size, wInput, ctor, thrown, lastDraw>>
oneHotVars == <<numClasses, labels, targets, overrun, encoded>>
voteVars == <<factor, histogram, pixelsRead, voted>>
laterVars == <<translation, crop, config, remap, tensor, legacy>>
auxVars == <<lockVars, sizedVars, oneHotVars, voteVars, laterVars>>
runVars == <<emitted, firstRun, iterResets, auxVars>>
vars == <<iterVars, provVars, histVars, runVars>>

(***************************************************************************)
(* The random number generator.  std::mt19937 is a deterministic generator *)
(* whose output sequence is a function of its state; the model keeps that  *)
(* and nothing else, with a full-period linear congruential generator.     *)
(***************************************************************************)
\* std::mt19937(seed): the state after seeding
RngSeed(s) == s % RngMod
\* one call of g(): the state after the call
RngAdvance(s) == (5 * s + 3) % RngMod
\* one call of g(): the value returned, in 0 .. RngMod-1
RngOutput(s) == RngAdvance(s)

(***************************************************************************)
(* SequentialIterator                                                      *)
(***************************************************************************)
\* SequentialIterator::next, the wrap-around test and the read of nextElement
SeqWrap(cur) == IF cur = NumFiles THEN 0 ELSE cur

\* SequentialIterator::next as one uninterrupted call
SeqNext(cur) == [ret |-> SeqWrap(cur), cursor |-> SeqWrap(cur) + 1]

\* SequentialIterator::reset
SeqReset == 0

(***************************************************************************)
(* WeightedRandomIterator.  Weights are kept as exact rationals: the       *)
(* cumulative numerators cum[k] over the common denominator sum.           *)
(***************************************************************************)
Abs(x) == IF x < 0 THEN 0 - x ELSE x

RECURSIVE CumSum(_, _)
CumSum(w, k) == IF k < 0 THEN 0 ELSE Abs(w[k]) + CumSum(w, k - 1)

\* WeightedRandomIterator::normalizeWeights for a weight vector w over Files
NormalizeWeights(w) ==
    [cum |-> [k \in Files |-> CumSum(w, k)], sum |-> CumSum(w, NumFiles - 1)]

\* a lookup over intervals closed at their upper end
InIntervalClosed(wt, out, k) ==
    LET prev == IF k = 0 THEN 0 ELSE wt.cum[k - 1]
    IN  /\ wt.sum > 0
        /\ prev * RngMod <= out * wt.sum
        /\ out * wt.sum <= wt.cum[k] * RngMod

\* previous <= u && u < *i, with u = out / RngMod and *i = cum[k] / sum
InInterval(wt, out, k) ==
    LET prev == IF k = 0 THEN 0 ELSE wt.cum[k - 1]
    IN  /\ wt.sum > 0
        /\ prev * RngMod <= out * wt.sum
        /\ out * wt.sum < wt.cum[k] * RngMod

RECURSIVE WeightedScan(_, _, _)
WeightedScan(wt, out, k) ==
    IF k >= NumFiles THEN NumFiles - 1
    ELSE IF InInterval(wt, out, k) THEN k
    ELSE WeightedScan(wt, out, k + 1)

\* WeightedRandomIterator::next as one uninterrupted call from generator state s
WeightedNext(wt, s) == [ret |-> WeightedScan(wt, RngOutput(s), 0), g |-> RngAdvance(s)]

\* WeightedRandomIterator::reset
WeightedReset(sd) == RngSeed(sd)

(***************************************************************************)
(* RandomIterator                                                          *)
(***************************************************************************)
\* std::iota(keys.begin(), keys.end(), 0)
Iota == [k \in Files |-> k]

\* a swap that copies one way only
SwapKeysCopy(k, i, j) == [k EXCEPT ![i] = k[j]]

\* std::iter_swap of two positions of keys
SwapKeys(k, i, j) == [k EXCEPT ![i] = k[j], ![j] = k[i]]

\* std::shuffle(keys.begin(), keys.end(), g): position i is swapped with a
\* position drawn uniformly from 0 .. i, for i = 1 .. n-1
RECURSIVE ShuffleFrom(_, _, _)
ShuffleFrom(k, s, i) ==
    IF i >= NumFiles THEN [keys |-> k, g |-> s]
    ELSE ShuffleFrom(SwapKeys(k, i, RngOutput(s) % (i + 1)), RngAdvance(s), i + 1)

\* RandomIterator::shuffle: shuffles the CURRENT content of keys, nextKey = begin
Shuffle(k, s) == ShuffleFrom(k, s, 1)

\* RandomIterator::RandomIterator(_container, _seed)
RandomConstruct(sd) == Shuffle(Iota, RngSeed(sd))

\* RandomIterator::reset
RandomReset(k, sd) == Shuffle(k, RngSeed(sd))

\* RandomIterator::next as one uninterrupted call
RandomNext(k, nk, s) ==
    LET sh == IF nk = NumFiles THEN Shuffle(k, s) ELSE [keys |-> k, g |-> s]
        at == IF nk = NumFiles THEN 0 ELSE nk
    IN  [ret |-> sh.keys[at], keys |-> sh.keys, nextKey |-> at + 1, g |-> sh.g]

(***************************************************************************)
(* DataProvider: the batch slot                                            *)
(***************************************************************************)
\* an element of a batch that no iteration of the parallel loop has written
NoItem == -1

\* batch == nullptr
NullBatch == [ptr |-> FALSE, items |-> [i \in Slots |-> NoItem], oldest |-> -1]

\* make_unique<Batch>(...): allocated, nothing packed yet.  oldest (ghost) is
\* the least value of resets at which one of its filenames was pulled.
FreshBatch == [ptr |-> TRUE, items |-> [i \in Slots |-> NoItem], oldest |-> -1]

\* slice i of batch b is written with the pair of filename e, pulled at epoch r
Packed(b, i, e, r) ==
    [b EXCEPT !.items[i] = e,
              !.oldest = IF b.oldest = -1 \/ r < b.oldest THEN r ELSE b.oldest]

\* a batch all of whose batchSize items have been loaded and packed
Complete(b) == b.ptr /\ \A i \in Slots : b.items[i] # NoItem

\* batch b holds a filename that was pulled from the iterator before reset r
PulledBefore(b, r) == b.oldest # -1 /\ b.oldest < r

\* next() that does not wait for the slot to be filled
NextPredTrue == TRUE

\* the predicate of cv.wait in DataProvider::next and in ~DataProvider
NextPred == batch.ptr

\* loadBatch that does not wait for the slot to be emptied
LoadBatchPredTrue == TRUE

\* the predicate of cv.wait in DataProvider::loadBatch
LoadBatchPred == ~batch.ptr

\* next() that hands the batch out and leaves it in the slot
SlotKept(b) == b

\* result = std::move(batch); batch = nullptr: what next() leaves in the slot
SlotAfterTake(b) == NullBatch

\* a critical section entered without taking batchAccessMutex
CanLockAlways == TRUE

\* std::unique_lock<std::mutex> lock(batchAccessMutex) can be acquired
CanLock == batchAccessMutex = NoThread

\* a worker that leaves the parallel loop without releasing batchAccessMutex
StillHeldBy(t) == t

\* the worker's lock.unlock() after the parallel loop
UnlockedBy(t) == NoThread

\* a handoff that never notifies
NotifyNone(w) == {w}

\* cv.notify_one(): wakes one of the threads blocked in cv.wait, if any
NotifyOne(w) == IF w = {} THEN {w} ELSE {w \ {t} : t \in w}

\* init() that probes the dimensions and does not rewind the iterator
InitSequentialNoReset(cur) == SeqNext(cur).cursor

\* position of the iterator after DataProvider::init: next(), then reset()
InitSequential(cur) == LET probed == SeqNext(cur) IN SeqReset

InitWeighted(wt, s, sd) == LET probed == WeightedNext(wt, s) IN WeightedReset(sd)

(***************************************************************************)
(* Initial states.  The provider has been constructed around an iterator;  *)
(* init() has not run yet.                                                 *)
(***************************************************************************)
\* the weight vectors handed to WeightedRandomIterator in the provider runs
WeightInputs == { [k \in Files |-> k + 1] }

ProviderFresh ==
    /\ pcC = "constructed"
    /\ pcW = "unspawned"
    /\ batch = NullBatch
    /\ batchAccessMutex = NoThread
    /\ cvWaiters = {}
    /\ terminateThread = FALSE
    /\ omp = [i \in Slots |-> "done"]
    /\ aborted = FALSE
    /\ resets = 0
    /\ published = 0
    /\ taken = 0
    /\ discarded = 0
    /\ lastTaken = NullBatch
    /\ staleAfter = [r \in 1 .. MaxResets |-> 0]
    /\ delivered = <<>>
    /\ resetAt = <<>>

NoRun ==
    /\ emitted = <<>>
    /\ firstRun = <<>>
    /\ iterResets = 0

\* what a thread that is not inside next() has read
NoRead == [ret |-> NoItem, pos |-> NoItem]

\* BaseIterator::accessMutex held by no thread of the parallel loop
NoCaller == -1

\* no thread is inside next() of the iterator
NoLock ==
    /\ accessMutex = NoCaller
    /\ caller = [i \in Slots |-> "idle"]
    /\ retVal = [i \in Slots |-> NoRead]

\* the iterator was constructed over the NumFiles filename pairs
NoSized ==
    /\ size = NumFiles
    /\ wInput = <<>>
    /\ ctor = "ok"
    /\ thrown = 0
    /\ lastDraw = -1

\* no target is being encoded
NoOneHot ==
    /\ numClasses = 0
    /\ labels = <<>>
    /\ targets = <<>>
    /\ overrun = FALSE
    /\ encoded = {}

\* no target is being subsampled
NoVote ==
    /\ factor = 0
    /\ histogram = <<>>
    /\ pixelsRead = 0
    /\ voted = -1

\* none of the further components is running
NoLater ==
    /\ translation = <<>>
    /\ crop = <<>>
    /\ config = <<>>
    /\ remap = <<>>
    /\ tensor = <<>>
    /\ legacy = <<>>

NoAux == NoLock /\ NoSized /\ NoOneHot /\ NoVote /\ NoLater

\* SequentialIterator(_container)
InitSequentialIterator ==
    /\ iterKind = "Sequential"
    /\ nextElement = 0
    /\ keys = Iota
    /\ nextKey = 0
    /\ g = 0
    /\ seed = 0
    /\ weights = NormalizeWeights([k \in Files |-> 1])

\* WeightedRandomIterator(_container, _weights, _seed)
InitWeightedIterator ==
    /\ iterKind = "WeightedRandom"
    /\ nextElement = 0
    /\ keys = Iota
    /\ nextKey = 0
    /\ seed \in Seeds
    /\ g = RngSeed(seed)
    /\ \E w \in WeightInputs : weights = NormalizeWeights(w)

\* RandomIterator(_container, _seed)
InitRandomIterator ==
    /\ iterKind = "Random"
    /\ nextElement = 0
    /\ seed \in Seeds
    /\ keys = RandomConstruct(seed).keys
    /\ g = RandomConstruct(seed).g
    /\ nextKey = 0
    /\ weights = NormalizeWeights([k \in Files |-> 1])

\* a provider around a SequentialIterator
Init ==
    /\ InitSequentialIterator
    /\ ProviderFresh
    /\ recording = FALSE
    /\ NoRun
    /\ NoAux

\* a provider around a seeded WeightedRandomIterator, the batches it returns
\* and the resets it gets being recorded
InitRuns ==
    /\ InitWeightedIterator
    /\ ProviderFresh
    /\ recording = TRUE
    /\ NoRun
    /\ NoAux

\* an iterator of any of the three kinds on its own, no provider around it
InitIter ==
    /\ InitSequentialIterator \/ InitRandomIterator \/ InitWeightedIterator
    /\ ProviderFresh
    /\ recording = FALSE
    /\ NoRun
    /\ NoAux

(***************************************************************************)
(* DataProvider::init                                                      *)
(***************************************************************************)
\* init(): the probe load succeeds; the iterator is reset; the thread is spawned
ProviderInit ==
    /\ pcC = "constructed"
    /\ nextElement' = IF iterKind = "Sequential"
                      THEN InitSequential(nextElement) ELSE nextElement
    /\ g' = IF iterKind = "WeightedRandom"
            THEN InitWeighted(weights, g, seed) ELSE g
    /\ pcW' = "loop"
    /\ pcC' = "idle"
    /\ UNCHANGED <<iterKind, keys, nextKey, seed, weights>>
    /\ UNCHANGED <<batch, batchAccessMutex, cvWaiters, terminateThread, omp, aborted>>
    /\ UNCHANGED <<histVars, runVars>>

\* init(): load(iterator->next()) throws in the caller's thread; nothing is spawned
ProviderInitFails ==
    /\ pcC = "constructed"
    /\ nextElement' = IF iterKind = "Sequential"
                      THEN SeqNext(nextElement).cursor ELSE nextElement
    /\ g' = IF iterKind = "WeightedRandom" THEN WeightedNext(weights, g).g ELSE g
    /\ pcC' = "initFailed"
    /\ UNCHANGED <<iterKind, keys, nextKey, seed, weights>>
    /\ UNCHANGED <<pcW, batch, batchAccessMutex, cvWaiters, terminateThread, omp,
                   aborted>>
    /\ UNCHANGED <<histVars, runVars>>

(***************************************************************************)
(* DataProvider::loadBatch, the prefill thread                             *)
(***************************************************************************)
\* while (!terminateThread)
WorkerLoop ==
    /\ ~aborted
    /\ pcW = "loop"
    /\ pcW' = IF terminateThread THEN "exited" ELSE "lock"
    /\ UNCHANGED <<iterVars, histVars, runVars>>
    /\ UNCHANGED <<pcC, batch, batchAccessMutex, cvWaiters, terminateThread, omp,
                   aborted>>

\* lock; cv.wait finds batch == nullptr; batch = make_unique<Batch>(...)
WorkerAcquire ==
    /\ ~aborted
    /\ pcW = "lock"
    /\ Worker \notin cvWaiters
    /\ CanLock
    /\ LoadBatchPred
    /\ batchAccessMutex' = Worker
    /\ batch' = FreshBatch
    /\ omp' = [i \in Slots |-> "todo"]
    /\ pcW' = "assemble"
    /\ UNCHANGED <<iterVars, histVars, runVars>>
    /\ UNCHANGED <<pcC, cvWaiters, terminateThread, aborted>>

\* lock; cv.wait finds batch != nullptr: unlock and block on cv
WorkerWait ==
    /\ ~aborted
    /\ pcW = "lock"
    /\ Worker \notin cvWaiters
    /\ CanLock
    /\ ~LoadBatchPred
    /\ cvWaiters' = cvWaiters \cup {Worker}
    /\ UNCHANGED <<iterVars, histVars, runVars>>
    /\ UNCHANGED <<pcC, pcW, batch, batchAccessMutex, terminateThread, omp, aborted>>

\* iterator->next() of iteration i, serialised with the other iterations by
\* accessMutex: the element it returns and the iterator state it leaves
IterNext ==
    IF iterKind = "Sequential"
    THEN [ret |-> SeqNext(nextElement).ret, cursor |-> SeqNext(nextElement).cursor, g |-> g]
    ELSE [ret |-> WeightedNext(weights, g).ret, cursor |-> nextElement,
          g |-> WeightedNext(weights, g).g]

\* iteration i of the parallel for: iterator->next(), load, augment,
\* assertSize/assertType pass, encode_onehot and memcpy into slice i of the batch
OmpLoadPair(i) ==
    /\ ~aborted
    /\ pcW = "assemble"
    /\ omp[i] = "todo"
    /\ nextElement' = IterNext.cursor
    /\ g' = IterNext.g
    /\ batch' = Packed(batch, i, IterNext.ret, resets)
    /\ omp' = [omp EXCEPT ![i] = "done"]
    /\ UNCHANGED <<iterKind, keys, nextKey, seed, weights>>
    /\ UNCHANGED <<pcC, pcW, batchAccessMutex, cvWaiters, terminateThread, aborted>>
    /\ UNCHANGED <<histVars, runVars>>

\* iteration i: the loader, the augmentor or an assertion throws.  Nothing in
\* loadBatch or around the thread catches: std::terminate ends the process.
OmpLoadFails(i) ==
    /\ ~aborted
    /\ pcW = "assemble"
    /\ omp[i] = "todo"
    /\ nextElement' = IterNext.cursor
    /\ g' = IterNext.g
    /\ aborted' = TRUE
    /\ UNCHANGED <<iterKind, keys, nextKey, seed, weights>>
    /\ UNCHANGED <<pcC, pcW, batch, batchAccessMutex, cvWaiters, terminateThread, omp>>
    /\ UNCHANGED <<histVars, runVars>>

\* the parallel loop has ended: lock.unlock()
WorkerPublish ==
    /\ ~aborted
    /\ pcW = "assemble"
    /\ \A i \in Slots : omp[i] = "done"
    /\ batchAccessMutex' = UnlockedBy(Worker)
    /\ published' = published + 1
    /\ pcW' = "notify"
    /\ UNCHANGED <<iterVars, runVars>>
    /\ UNCHANGED <<pcC, batch, cvWaiters, terminateThread, omp, aborted>>
    /\ UNCHANGED <<resets, taken, discarded, lastTaken, staleAfter, recording, delivered,
                   resetAt>>

\* cv.notify_one() of loadBatch
WorkerNotify ==
    /\ ~aborted
    /\ pcW = "notify"
    /\ cvWaiters' \in NotifyOne(cvWaiters)
    /\ pcW' = "loop"
    /\ UNCHANGED <<iterVars, histVars, runVars>>
    /\ UNCHANGED <<pcC, batch, batchAccessMutex, terminateThread, omp, aborted>>

(***************************************************************************)
(* The consumer thread: DataProvider::next, reset and ~DataProvider        *)
(***************************************************************************)
\* the consumer calls next()
CallNext ==
    /\ ~aborted
    /\ pcC = "idle"
    /\ taken < MaxTake
    /\ pcC' = "nextLock"
    /\ UNCHANGED <<iterVars, histVars, runVars>>
    /\ UNCHANGED <<pcW, batch, batchAccessMutex, cvWaiters, terminateThread, omp,
                   aborted>>

\* next(): lock; cv.wait finds batch != nullptr; result = std::move(batch);
\* batch = nullptr; lock.unlock()
NextTake ==
    /\ ~aborted
    /\ pcC = "nextLock"
    /\ Consumer \notin cvWaiters
    /\ CanLock
    /\ NextPred
    /\ taken' = taken + 1
    /\ lastTaken' = [batch EXCEPT !.oldest = -1]
    /\ staleAfter' = [r \in 1 .. MaxResets |->
                        IF r <= resets /\ PulledBefore(batch, r)
                        THEN staleAfter[r] + 1 ELSE staleAfter[r]]
    /\ delivered' = IF recording THEN Append(delivered, batch.items) ELSE delivered
    /\ batch' = SlotAfterTake(batch)
    /\ pcC' = "nextNotify"
    /\ UNCHANGED <<iterVars, runVars>>
    /\ UNCHANGED <<pcW, batchAccessMutex, cvWaiters, terminateThread, omp, aborted>>
    /\ UNCHANGED <<resets, published, discarded, recording, resetAt>>

\* next(): lock; cv.wait finds batch == nullptr: unlock and block on cv
NextWait ==
    /\ ~aborted
    /\ pcC = "nextLock"
    /\ Consumer \notin cvWaiters
    /\ CanLock
    /\ ~NextPred
    /\ cvWaiters' = cvWaiters \cup {Consumer}
    /\ UNCHANGED <<iterVars, histVars, runVars>>
    /\ UNCHANGED <<pcC, pcW, batch, batchAccessMutex, terminateThread, omp, aborted>>

\* next(): cv.notify_one(); return result
NextNotify ==
    /\ ~aborted
    /\ pcC = "nextNotify"
    /\ cvWaiters' \in NotifyOne(cvWaiters)
    /\ pcC' = "idle"
    /\ UNCHANGED <<iterVars, histVars, runVars>>
    /\ UNCHANGED <<pcW, batch, batchAccessMutex, terminateThread, omp, aborted>>

\* DataProvider::reset(): iterator->reset(), which takes no mutex
ProviderReset ==
    /\ ~aborted
    /\ pcC = "idle"
    /\ resets < MaxResets
    /\ nextElement' = IF iterKind = "Sequential" THEN SeqReset ELSE nextElement
    /\ g' = IF iterKind = "WeightedRandom" THEN WeightedReset(seed) ELSE g
    /\ resets' = resets + 1
    /\ resetAt' = IF recording THEN Append(resetAt, taken) ELSE resetAt
    /\ UNCHANGED <<iterKind, keys, nextKey, seed, weights>>
    /\ UNCHANGED <<provVars, runVars>>
    /\ UNCHANGED <<published, taken, discarded, lastTaken, staleAfter, recording, delivered>>

\* the elements a next() can return and the states it can leave when reset()
\* writes the iterator state, unsynchronised, while the next() is running: the
\* element is the one read before the store of reset(); the write of next()
\* is based on the value stored by reset() or on the value read before it
\* (the reset is lost).  The generator of the weighted iterator is many words
\* wide, so its state and the drawn element can be torn.
RacedNext ==
    IF iterKind = "Sequential"
    THEN { [ret |-> SeqWrap(nextElement), cursor |-> c, g |-> g] :
             c \in {SeqReset + 1, SeqWrap(nextElement) + 1} }
    ELSE { [ret |-> WeightedNext(weights, s).ret, cursor |-> nextElement, g |-> t] :
             s \in RngStates, t \in RngStates }

\* DataProvider::reset() while iteration i of the parallel for is inside
\* iterator->next(): a data race on the iterator state
ProviderResetRaces(i) ==
    /\ ~aborted
    /\ pcC = "idle"
    /\ resets < MaxResets
    /\ pcW = "assemble"
    /\ omp[i] = "todo"
    /\ \E r \in RacedNext :
          /\ nextElement' = r.cursor
          /\ g' = r.g
          /\ batch' = Packed(batch, i, r.ret, resets)
    /\ omp' = [omp EXCEPT ![i] = "done"]
    /\ resets' = resets + 1
    /\ resetAt' = IF recording THEN Append(resetAt, taken) ELSE resetAt
    /\ UNCHANGED <<iterKind, keys, nextKey, seed, weights>>
    /\ UNCHANGED <<pcC, pcW, batchAccessMutex, cvWaiters, terminateThread, aborted>>
    /\ UNCHANGED <<published, taken, discarded, lastTaken, staleAfter, recording, delivered,
                   runVars>>

\* the consumer destroys the provider
CallDestructor ==
    /\ ~aborted
    /\ pcC = "idle"
    /\ pcC' = "dtorLock"
    /\ UNCHANGED <<iterVars, histVars, runVars>>
    /\ UNCHANGED <<pcW, batch, batchAccessMutex, cvWaiters, terminateThread, omp,
                   aborted>>

\* ~DataProvider: lock; cv.wait finds batch != nullptr; batch = nullptr;
\* terminateThread = true; lock.unlock()
DestructorTake ==
    /\ ~aborted
    /\ pcC = "dtorLock"
    /\ Consumer \notin cvWaiters
    /\ CanLock
    /\ NextPred
    /\ batch' = NullBatch
    /\ terminateThread' = TRUE
    /\ discarded' = discarded + 1
    /\ pcC' = "dtorNotify"
    /\ UNCHANGED <<iterVars, runVars>>
    /\ UNCHANGED <<resets, published, taken, lastTaken, staleAfter, recording, delivered,
                   resetAt>>
    /\ UNCHANGED <<pcW, batchAccessMutex, cvWaiters, omp, aborted>>

\* ~DataProvider: lock; cv.wait finds batch == nullptr: unlock and block on cv
DestructorWait ==
    /\ ~aborted
    /\ pcC = "dtorLock"
    /\ Consumer \notin cvWaiters
    /\ CanLock
    /\ ~NextPred
    /\ cvWaiters' = cvWaiters \cup {Consumer}
    /\ UNCHANGED <<iterVars, histVars, runVars>>
    /\ UNCHANGED <<pcC, pcW, batch, batchAccessMutex, terminateThread, omp, aborted>>

\* ~DataProvider: cv.notify_one()
DestructorNotify ==
    /\ ~aborted
    /\ pcC = "dtorNotify"
    /\ cvWaiters' \in NotifyOne(cvWaiters)
    /\ pcC' = "dtorJoin"
    /\ UNCHANGED <<iterVars, histVars, runVars>>
    /\ UNCHANGED <<pcW, batch, batchAccessMutex, terminateThread, omp, aborted>>

\* ~DataProvider: prefillThread.join() returns once loadBatch has returned
DestructorJoin ==
    /\ ~aborted
    /\ pcC = "dtorJoin"
    /\ pcW = "exited"
    /\ pcC' = "destroyed"
    /\ UNCHANGED <<iterVars, histVars, runVars>>
    /\ UNCHANGED <<pcW, batch, batchAccessMutex, cvWaiters, terminateThread, omp,
                   aborted>>

\* std::condition_variable::wait may return without a notification
SpuriousWakeup ==
    /\ ~aborted
    /\ \E t \in cvWaiters : cvWaiters' = cvWaiters \ {t}
    /\ UNCHANGED <<iterVars, histVars, runVars>>
    /\ UNCHANGED <<pcC, pcW, batch, batchAccessMutex, terminateThread, omp, aborted>>

(***************************************************************************)
(* The provider with its prefill thread and one consumer.                  *)
(***************************************************************************)
WorkerStep ==
    \/ WorkerLoop
    \/ WorkerAcquire
    \/ WorkerWait
    \/ \E i \in Slots : OmpLoadPair(i)
    \/ WorkerPublish
    \/ WorkerNotify

ConsumerNextStep ==
    \/ NextTake
    \/ NextWait
    \/ NextNotify

Next ==
    \/ ProviderInit
    \/ ProviderInitFails
    \/ WorkerStep
    \/ \E i \in Slots : OmpLoadFails(i)
    \/ CallNext
    \/ ConsumerNextStep
    \/ ProviderReset
    \/ \E i \in Slots : ProviderResetRaces(i)
    \/ CallDestructor
    \/ DestructorTake
    \/ DestructorWait
    \/ DestructorNotify
    \/ DestructorJoin
    \/ SpuriousWakeup

Spec == Init /\ [][Next]_vars

\* the provider around a seeded WeightedRandomIterator, with the histories
SpecRuns == InitRuns /\ [][Next]_vars

(***************************************************************************)
(* The handoff when no load fails and the threads are scheduled fairly:    *)
(* each thread that can take a step eventually takes one.  A spurious      *)
(* wakeup and the consumer's decisions to call are not fair.               *)
(***************************************************************************)
NextNoFail ==
    \/ ProviderInit
    \/ WorkerStep
    \/ CallNext
    \/ ConsumerNextStep
    \/ ProviderReset
    \/ \E i \in Slots : ProviderResetRaces(i)
    \/ SpuriousWakeup

LiveSpec ==
    /\ Init
    /\ [][NextNoFail]_vars
    /\ WF_vars(ProviderInit)
    /\ WF_vars(WorkerStep)
    /\ WF_vars(ConsumerNextStep)

(***************************************************************************)
(* An iterator on its own: a single thread calls next() and reset().       *)
(***************************************************************************)
\* what next() returns and the state it leaves, by kind of iterator
StandaloneNextResult ==
    CASE iterKind = "Sequential" ->
             [ret |-> SeqNext(nextElement).ret, cursor |-> SeqNext(nextElement).cursor,
              keys |-> keys, nextKey |-> nextKey, g |-> g]
      [] iterKind = "Random" ->
             [ret |-> RandomNext(keys, nextKey, g).ret, cursor |-> nextElement,
              keys |-> RandomNext(keys, nextKey, g).keys,
              nextKey |-> RandomNext(keys, nextKey, g).nextKey,
              g |-> RandomNext(keys, nextKey, g).g]
      [] iterKind = "WeightedRandom" ->
             [ret |-> WeightedNext(weights, g).ret, cursor |-> nextElement,
              keys |-> keys, nextKey |-> nextKey, g |-> WeightedNext(weights, g).g]

\* IteratorInterface::next
StandaloneNext ==
    /\ Len(emitted) < MaxEmit
    /\ nextElement' = StandaloneNextResult.cursor
    /\ keys' = StandaloneNextResult.keys
    /\ nextKey' = StandaloneNextResult.nextKey
    /\ g' = StandaloneNextResult.g
    /\ emitted' = Append(emitted, StandaloneNextResult.ret)
    /\ firstRun' = IF iterResets = 0 THEN Append(firstRun, StandaloneNextResult.ret)
                   ELSE firstRun
    /\ UNCHANGED <<iterKind, seed, weights, iterResets>>
    /\ UNCHANGED <<provVars, histVars, auxVars>>

\* IteratorInterface::reset
StandaloneReset ==
    /\ iterResets < MaxIterResets
    /\ nextElement' = IF iterKind = "Sequential" THEN SeqReset ELSE nextElement
    /\ keys' = IF iterKind = "Random" THEN RandomReset(keys, seed).keys ELSE keys
    /\ nextKey' = IF iterKind = "Random" THEN 0 ELSE nextKey
    /\ g' = CASE iterKind = "Sequential" -> g
              [] iterKind = "Random" -> RandomReset(keys, seed).g
              [] iterKind = "WeightedRandom" -> WeightedReset(seed)
    /\ emitted' = <<>>
    /\ iterResets' = iterResets + 1
    /\ UNCHANGED <<iterKind, seed, weights, firstRun>>
    /\ UNCHANGED <<provVars, histVars, auxVars>>

NextIter == StandaloneNext \/ StandaloneReset

SpecIter == InitIter /\ [][NextIter]_vars

(***************************************************************************)
(* Properties                                                              *)
(***************************************************************************)
\* the number of items iterations of the running parallel loop have packed
PackedCount == Cardinality({i \in Slots : batch.items[i] # NoItem})

\* the batches the worker has published that the provider still holds: neither
\* returned by next() nor released by the destructor
Undelivered == published - taken - discarded

\* C1: at most one completed batch has been published by the worker and not
\* yet taken by the consumer: the number of undelivered batches is 0 or 1 in
\* every state.
C1_AtMostOneUndelivered == Undelivered \in {0, 1}

\* C1 witness: a second batch is published and undelivered while the worker
\* is blocked in cv.wait behind it.
C1_Witness ==
    /\ taken >= 1
    /\ published = taken + 1
    /\ Worker \in cvWaiters

\* C2: every batch next() has returned is complete (all batchSize items
\* packed), and while the worker is writing into the allocated batch it holds
\* batchAccessMutex, so the consumer cannot read the pointer.
C2_NoPartialBatch ==
    /\ taken >= 1 => Complete(lastTaken)
    /\ (batch.ptr /\ ~Complete(batch)) => batchAccessMutex = Worker
    /\ pcW = "assemble" => batchAccessMutex = Worker

\* C2 witness: the consumer is inside next() while the worker has packed some
\* but not all items of the batch, and an earlier next() has returned.
C2_Witness ==
    /\ taken >= 1
    /\ pcC = "nextLock"
    /\ pcW = "assemble"
    /\ PackedCount >= 1
    /\ ~Complete(batch)

\* C3: the worker allocates a batch and pulls filenames for it only when the
\* slot is empty and every published batch has been taken; the consumer takes
\* only a filled slot; fills and takes alternate, the first being a fill.
C3_Backpressure ==
    [][ /\ (pcW # "assemble" /\ pcW' = "assemble") => (~batch.ptr /\ Undelivered = 0)
        /\ (omp' # omp /\ pcW = "assemble") => Undelivered = 0
        /\ (published' # published) => (published' = published + 1 /\ Undelivered = 0)
        /\ (taken' # taken) => (taken' = taken + 1 /\ Complete(batch) /\ Undelivered = 1)
      ]_vars

\* C3 witness: the worker is pulling filenames for the third batch after the
\* consumer has taken the second.
C3_Witness ==
    /\ taken = 2
    /\ published = 2
    /\ pcW = "assemble"
    /\ PackedCount >= 1

\* C4: when no load fails and the threads are scheduled fairly, every call of
\* next() returns a batch: a consumer inside next() eventually holds a batch.
C4_NextReturns == (pcC = "nextLock") ~> (pcC = "nextNotify")

\* C4 witness: the consumer is blocked in cv.wait of next() on an empty slot.
C4_Witness ==
    /\ pcC = "nextLock"
    /\ Consumer \in cvWaiters
    /\ ~batch.ptr
    /\ taken >= 1

\* C5: an error raised in the prefill thread while a batch is assembled is
\* captured for the consumer's next call of next(); it does not end the
\* process.
C5_WorkerErrorCaptured == ~aborted

\* C6: with a Sequential iterator and no reset, position i of the k-th batch
\* returned by next() holds element (k * batchSize + i) mod N, for every
\* schedule of the parallel loop.
C6_BatchInOrder ==
    (iterKind = "Sequential" /\ resets = 0 /\ taken >= 1 /\ Complete(lastTaken)) =>
        \A i \in Slots : lastTaken.items[i] = ((taken - 1) * BatchSize + i) % NumFiles

\* C7: the dimension probe of init() does not shift the sequence: with a
\* Sequential iterator and no reset by the consumer, the filenames pulled so
\* far for the first batch are the first emissions after reset(), element 0
\* first.
C7_InitRewinds ==
    (iterKind = "Sequential" /\ resets = 0 /\ published = 0 /\ pcW = "assemble") =>
        {batch.items[i] : i \in Slots} \ {NoItem} = {k % NumFiles : k \in 0 .. (PackedCount - 1)}

\* C7 witness: exactly one filename has been pulled for the first batch.
C7_Witness ==
    /\ iterKind = "Sequential"
    /\ resets = 0
    /\ published = 0
    /\ pcW = "assemble"
    /\ PackedCount = 1

\* C8: after any reset() of a seeded Random iterator, the emissions repeat the
\* emissions that followed construction.
C8_ResetReproduces ==
    (iterKind = "Random" /\ iterResets >= 1) =>
        \A k \in 1 .. Len(emitted) : k <= Len(firstRun) => emitted[k] = firstRun[k]

\* C9: with a seeded WeightedRandom iterator, two runs of R consecutive
\* next() calls separated by one reset() return the same R batches.
C9_RunsIdentical ==
    (recording /\ iterKind = "WeightedRandom" /\ Len(resetAt) = 1
       /\ resetAt[1] >= 1 /\ Len(delivered) = 2 * resetAt[1]) =>
        \A k \in 1 .. resetAt[1] : delivered[resetAt[1] + k] = delivered[k]

\* C10: after each reset() of the provider, at most one batch returned by
\* later next() calls holds a filename pulled before that reset.
C10_AtMostOneStaleBatch == \A r \in 1 .. MaxResets : staleAfter[r] <= 1

\* C10 witness: a batch with a filename pulled before the reset was returned
\* after it, and the batch now in the slot was built wholly after the reset.
C10_Witness ==
    /\ resets >= 1
    /\ staleAfter[1] = 1
    /\ Complete(batch)
    /\ ~PulledBefore(batch, 1)

\* the generator state n calls of g() after state s
RECURSIVE RngAfter(_, _)
RngAfter(s, n) == IF n = 0 THEN s ELSE RngAfter(RngAdvance(s), n - 1)

\* the batch whose position i holds the i-th emission after the reset of init()
SerialFirstBatch ==
    [i \in Slots |-> WeightedNext(weights, RngAfter(RngSeed(seed), i)).ret]

\* C11: for a fixed seed the batches do not depend on how the iterations of
\* the parallel loop are scheduled: with a seeded WeightedRandom iterator and
\* no reset, the first batch returned by next() is the one batch determined by
\* the seed, position i holding the i-th emission.
C11_ScheduleIndependent ==
    (recording /\ iterKind = "WeightedRandom" /\ resets = 0 /\ Len(delivered) >= 1) =>
        delivered[1] = SerialFirstBatch

(***************************************************************************)
(* next() of an iterator step by step, called by the threads of the        *)
(* parallel loop, while another thread calls reset().  next() holds        *)
(* accessMutex from its first statement to its return; reset() takes no    *)
(* mutex (iterators.h 119-121, 171-175, 258-261).                          *)
(***************************************************************************)
\* a lock that every thread acquires at once
CanLockAccessAlways == TRUE

\* std::lock_guard<std::mutex> lock(accessMutex) can be acquired
CanLockAccess == accessMutex = NoCaller

\* the number of threads inside next()
InFlight == Cardinality({i \in Slots : caller[i] # "idle"})

\* thread i enters next(): std::lock_guard<std::mutex> lock(accessMutex)
LockNext(i) ==
    /\ caller[i] = "idle"
    /\ Len(emitted) + InFlight < MaxEmit
    /\ CanLockAccess
    /\ accessMutex' = i
    /\ caller' = [caller EXCEPT ![i] = "locked"]
    /\ UNCHANGED <<iterVars, provVars, histVars>>
    /\ UNCHANGED <<emitted, firstRun, iterResets, retVal>>
    /\ UNCHANGED <<sizedVars, oneHotVars, voteVars, laterVars>>

\* what thread i reads under the lock, and the state the reads leave: the
\* wrap-around (Sequential), the shuffle at the end of keys (Random), the
\* draw and the scan of the weights (WeightedRandom)
ReadResult ==
    CASE iterKind = "Sequential" ->
             [ret |-> SeqWrap(nextElement), pos |-> SeqWrap(nextElement),
              cursor |-> SeqWrap(nextElement), keys |-> keys, nextKey |-> nextKey, g |-> g]
      [] iterKind = "Random" ->
             LET sh == IF nextKey = NumFiles THEN Shuffle(keys, g)
                       ELSE [keys |-> keys, g |-> g]
                 at == IF nextKey = NumFiles THEN 0 ELSE nextKey
             IN  [ret |-> sh.keys[at], pos |-> at, cursor |-> nextElement,
                  keys |-> sh.keys, nextKey |-> at, g |-> sh.g]
      [] iterKind = "WeightedRandom" ->
             [ret |-> WeightedNext(weights, g).ret, pos |-> NoItem, cursor |-> nextElement,
              keys |-> keys, nextKey |-> nextKey, g |-> WeightedNext(weights, g).g]

\* thread i, inside next(): auto retVal = nextElement / auto current = *nextKey /
\* u = uniformDistribution(g) and the scan
ReadNext(i) ==
    /\ caller[i] = "locked"
    /\ nextElement' = ReadResult.cursor
    /\ keys' = ReadResult.keys
    /\ nextKey' = ReadResult.nextKey
    /\ g' = ReadResult.g
    /\ retVal' = [retVal EXCEPT ![i] = [ret |-> ReadResult.ret, pos |-> ReadResult.pos]]
    /\ caller' = [caller EXCEPT ![i] = "read"]
    /\ UNCHANGED <<iterKind, seed, weights>>
    /\ UNCHANGED <<provVars, histVars>>
    /\ UNCHANGED <<emitted, firstRun, iterResets, accessMutex>>
    /\ UNCHANGED <<sizedVars, oneHotVars, voteVars, laterVars>>

\* the values nextElement++ / nextKey++ can store for a thread that read
\* position p: the increment of the value now in memory, or of the value the
\* thread read (they differ only if a reset() has written in between)
Advanced(now, p) == {now + 1, p + 1}

\* thread i, inside next(): nextElement++ / nextKey++, return, unlock
AdvanceNext(i) ==
    /\ caller[i] = "read"
    /\ nextElement' \in IF iterKind = "Sequential"
                        THEN Advanced(nextElement, retVal[i].pos) ELSE {nextElement}
    /\ nextKey' \in IF iterKind = "Random"
                    THEN Advanced(nextKey, retVal[i].pos) ELSE {nextKey}
    /\ emitted' = Append(emitted, retVal[i].ret)
    /\ accessMutex' = NoCaller
    /\ caller' = [caller EXCEPT ![i] = "idle"]
    /\ retVal' = [retVal EXCEPT ![i] = NoRead]
    /\ UNCHANGED <<iterKind, keys, g, seed, weights>>
    /\ UNCHANGED <<provVars, histVars>>
    /\ UNCHANGED <<firstRun, iterResets>>
    /\ UNCHANGED <<sizedVars, oneHotVars, voteVars, laterVars>>

\* reset() while thread i, inside next(), runs shuffle() (Random, nextKey at
\* the end of keys) or draws from g (WeightedRandom): both threads write keys
\* and the many-word generator at once, so keys and g can be torn
ResetRacesNext(i) ==
    /\ iterResets < MaxIterResets
    /\ caller[i] = "locked"
    /\ \/ iterKind = "Random" /\ nextKey = NumFiles
       \/ iterKind = "WeightedRandom"
    /\ g' \in RngStates
    /\ IF iterKind = "Random"
       THEN /\ keys' \in [Files -> Files]
            /\ nextKey' = 0
            /\ retVal' = [retVal EXCEPT ![i] = [ret |-> keys'[0], pos |-> 0]]
       ELSE /\ \E s \in RngStates :
                  retVal' = [retVal EXCEPT
                                ![i] = [ret |-> WeightedNext(weights, s).ret, pos |-> NoItem]]
            /\ UNCHANGED <<keys, nextKey>>
    /\ caller' = [caller EXCEPT ![i] = "read"]
    /\ iterResets' = iterResets + 1
    /\ UNCHANGED <<iterKind, nextElement, seed, weights>>
    /\ UNCHANGED <<provVars, histVars>>
    /\ UNCHANGED <<emitted, firstRun, accessMutex>>
    /\ UNCHANGED <<sizedVars, oneHotVars, voteVars, laterVars>>

NextLock ==
    \/ \E i \in Slots : LockNext(i)
    \/ \E i \in Slots : ReadNext(i)
    \/ \E i \in Slots : AdvanceNext(i)
    \/ \E i \in Slots : ResetRacesNext(i)
    \/ StandaloneReset

\* an iterator of any kind, its next() called by the threads of the parallel
\* loop and its reset() by another thread
SpecLock == InitIter /\ [][NextLock]_vars

\* C12: every access to the iterator state is serialised by accessMutex, for
\* reset() as for next(): no reset() writes the iterator state while a thread
\* is inside next() holding accessMutex.
C12_ResetSerialized ==
    [][ (iterResets' # iterResets) => accessMutex = NoCaller ]_vars

(***************************************************************************)
(* Shutdown: the provider is destroyed while the prefill thread runs.  No  *)
(* load fails; each thread that can take a step eventually takes one.      *)
(***************************************************************************)
DestructorStep ==
    \/ DestructorTake
    \/ DestructorWait
    \/ DestructorNotify
    \/ DestructorJoin

NextShutdown ==
    \/ NextNoFail
    \/ CallDestructor
    \/ DestructorStep

LiveShutdownSpec ==
    /\ Init
    /\ [][NextShutdown]_vars
    /\ WF_vars(ProviderInit)
    /\ WF_vars(WorkerStep)
    /\ WF_vars(ConsumerNextStep)
    /\ WF_vars(DestructorStep)

\* C13: when init() was called and no load fails, a destructor that has
\* started always returns: the worker leaves its loop and join() completes,
\* whatever the slot and the worker were doing when the destructor started.
C13_ShutdownTerminates == (pcC = "dtorLock") ~> (pcC = "destroyed" /\ pcW = "exited")

\* C13 witness: the destructor has returned after releasing a batch and
\* after batches were taken; the worker has exited.
C13_Witness ==
    /\ pcC = "destroyed"
    /\ pcW = "exited"
    /\ terminateThread
    /\ discarded = 1
    /\ taken >= 1

\* the two states the claim names, both reachable: the destructor starts on a
\* filled slot with the worker blocked in cv.wait, or on an empty slot with
\* the worker assembling
C13_FilledWorkerWaiting ==
    pcC = "dtorLock" /\ batch.ptr /\ Worker \in cvWaiters /\ pcW = "lock"

C13_EmptyWorkerAssembling ==
    pcC = "dtorLock" /\ pcW = "assemble" /\ ~Complete(batch)

\* C14: once the destructor has set terminateThread and notified, the worker
\* pulls no further filename from the iterator and assembles no further
\* batch.
C14_NoPullAfterTerminate ==
    [][ (terminateThread /\ pcC \in {"dtorJoin", "destroyed"}) =>
            (nextElement' = nextElement /\ g' = g /\ pcW' # "assemble") ]_vars

\* k holds every index of the container exactly once
IsPermutation(k) == DOMAIN k = Files /\ {k[i] : i \in Files} = Files

\* C15: the key vector of a RandomIterator is a permutation of 0 .. N-1 after
\* construction and after every next() and reset(); the N emissions between
\* two consecutive shuffles are pairwise different, so that they cover the
\* container.
C15_KeysPermutation ==
    iterKind = "Random" =>
        /\ IsPermutation(keys)
        /\ nextKey \in 0 .. NumFiles
        /\ \A i, j \in 1 .. Len(emitted) :
              (i < j /\ (i - 1) \div NumFiles = (j - 1) \div NumFiles) =>
                  emitted[i] # emitted[j]
        /\ Len(emitted) >= NumFiles => {emitted[i] : i \in 1 .. NumFiles} = Files

\* C15 witness: after a reset, a RandomIterator has emitted more than N
\* elements, so next() has shuffled again, and keys is not the identity.
C15_Witness ==
    /\ iterKind = "Random"
    /\ iterResets >= 1
    /\ Len(emitted) > NumFiles
    /\ keys # Iota

(***************************************************************************)
(* The iterators over a container of any size, the empty one included,     *)
(* from their construction on, called from one thread.  For the            *)
(* WeightedRandomIterator the weights are an input of any length.  A       *)
(* weight vector that sums to 0 is normalised to NaN entries by the        *)
(* division in normalizeWeights; [cum, sum] with sum = 0 stands for it,    *)
(* and every comparison with a NaN is false.                               *)
(***************************************************************************)
\* the sizes of the container
Sizes == 0 .. NumFiles

\* the values a weight can take
WeightValues == {-1, 0, 2}

\* the indices of a container of n elements
Indices(n) == 0 .. (n - 1)

\* the weight vectors of every length up to NumFiles
WeightVectors == UNION { [Indices(m) -> WeightValues] : m \in Sizes }

\* a container that is never found empty
ContainerEmptyNever(n) == FALSE

\* container->empty()
ContainerEmpty(n) == n = 0

\* *nextKey, the key at position at of keys (NoItem past the end)
KeyAt(k, at) == IF at \in DOMAIN k THEN k[at] ELSE NoItem

\* SequentialIterator::next over n elements: wrap, then the test for empty
SeqNextSized(n, cur) ==
    LET c == IF cur = n THEN 0 ELSE cur
    IN  IF ContainerEmpty(n)
        THEN [thrown |-> TRUE, ret |-> NoItem, cursor |-> c]
        ELSE [thrown |-> FALSE, ret |-> c, cursor |-> c + 1]

\* std::shuffle over the n keys
RECURSIVE ShuffleFromSized(_, _, _, _)
ShuffleFromSized(n, k, s, i) ==
    IF i >= n THEN [keys |-> k, g |-> s]
    ELSE ShuffleFromSized(n, SwapKeys(k, i, RngOutput(s) % (i + 1)), RngAdvance(s), i + 1)

\* RandomIterator::shuffle over n keys
ShuffleSized(n, k, s) == ShuffleFromSized(n, k, s, 1)

\* RandomIterator::next over n elements: shuffle at the end of keys, then the
\* test for empty
RandomNextSized(n, k, nk, s) ==
    LET sh == IF nk = n THEN ShuffleSized(n, k, s) ELSE [keys |-> k, g |-> s]
        at == IF nk = n THEN 0 ELSE nk
    IN  IF ContainerEmpty(n)
        THEN [thrown |-> TRUE, ret |-> NoItem, keys |-> sh.keys, nextKey |-> at,
              g |-> sh.g]
        ELSE [thrown |-> FALSE, ret |-> KeyAt(sh.keys, at), keys |-> sh.keys,
              nextKey |-> at + 1, g |-> sh.g]

\* normalizeWeights: the test that the container and the weights agree in size
WeightsMismatch(n, w) == DOMAIN w # Indices(n)

\* normalizeWeights over n weights: absolute values, sum, division, running sum
NormalizeSized(n, w) ==
    [cum |-> [k \in Indices(n) |-> CumSum(w, k)], sum |-> CumSum(w, n - 1)]

\* the scan of WeightedRandomIterator::next over n weights; container->end() - 1
\* when no interval holds the draw
RECURSIVE WeightedScanSized(_, _, _, _)
WeightedScanSized(n, wt, out, k) ==
    IF k >= n THEN n - 1
    ELSE IF InInterval(wt, out, k) THEN k
    ELSE WeightedScanSized(n, wt, out, k + 1)

\* WeightedRandomIterator::next over n elements: the test for empty, the draw,
\* the scan
WeightedNextSized(n, wt, s) ==
    IF ContainerEmpty(n)
    THEN [thrown |-> TRUE, ret |-> NoItem, g |-> s, draw |-> -1]
    ELSE [thrown |-> FALSE, ret |-> WeightedScanSized(n, wt, RngOutput(s), 0),
          g |-> RngAdvance(s), draw |-> RngOutput(s)]

\* the arguments of the constructor have been chosen; it has not run yet
InitSized ==
    /\ iterKind \in {"Sequential", "Random", "WeightedRandom"}
    /\ size \in Sizes
    /\ seed \in (IF iterKind = "Sequential" THEN {0} ELSE Seeds)
    /\ wInput \in (IF iterKind = "WeightedRandom" THEN WeightVectors ELSE {<<>>})
    /\ ctor = "pending"
    /\ nextElement = 0
    /\ keys = <<>>
    /\ nextKey = 0
    /\ g = 0
    /\ weights = NormalizeSized(0, <<>>)
    /\ thrown = 0
    /\ lastDraw = -1
    /\ ProviderFresh
    /\ recording = FALSE
    /\ NoRun
    /\ NoLock
    /\ NoOneHot
    /\ NoVote
    /\ NoLater

\* the constructor returns: SequentialIterator(_container),
\* RandomIterator(_container, _seed), WeightedRandomIterator(_container,
\* _weights, _seed)
SizedConstruct ==
    /\ ctor = "pending"
    /\ ~(iterKind = "WeightedRandom" /\ WeightsMismatch(size, wInput))
    /\ ctor' = "ok"
    /\ nextElement' = 0
    /\ keys' = IF iterKind = "Random"
               THEN ShuffleSized(size, [k \in Indices(size) |-> k], RngSeed(seed)).keys
               ELSE keys
    /\ nextKey' = 0
    /\ g' = CASE iterKind = "Sequential" -> g
              [] iterKind = "Random" ->
                     ShuffleSized(size, [k \in Indices(size) |-> k], RngSeed(seed)).g
              [] iterKind = "WeightedRandom" -> RngSeed(seed)
    /\ weights' = IF iterKind = "WeightedRandom" THEN NormalizeSized(size, wInput)
                  ELSE weights
    /\ UNCHANGED <<iterKind, seed>>
    /\ UNCHANGED <<provVars, histVars>>
    /\ UNCHANGED <<emitted, firstRun, iterResets>>
    /\ UNCHANGED <<size, wInput, thrown, lastDraw>>
    /\ UNCHANGED <<lockVars, oneHotVars, voteVars, laterVars>>

\* the constructor throws: normalizeWeights finds a number of weights that
\* differs from the number of elements
SizedConstructFails ==
    /\ ctor = "pending"
    /\ iterKind = "WeightedRandom"
    /\ WeightsMismatch(size, wInput)
    /\ ctor' = "threw"
    /\ UNCHANGED <<iterVars, provVars, histVars>>
    /\ UNCHANGED <<emitted, firstRun, iterResets>>
    /\ UNCHANGED <<size, wInput, thrown, lastDraw>>
    /\ UNCHANGED <<lockVars, oneHotVars, voteVars, laterVars>>

\* what next() does, by kind of iterator
SizedNextResult ==
    CASE iterKind = "Sequential" ->
             [thrown |-> SeqNextSized(size, nextElement).thrown,
              ret |-> SeqNextSized(size, nextElement).ret,
              cursor |-> SeqNextSized(size, nextElement).cursor,
              keys |-> keys, nextKey |-> nextKey, g |-> g, draw |-> lastDraw]
      [] iterKind = "Random" ->
             [thrown |-> RandomNextSized(size, keys, nextKey, g).thrown,
              ret |-> RandomNextSized(size, keys, nextKey, g).ret,
              cursor |-> nextElement,
              keys |-> RandomNextSized(size, keys, nextKey, g).keys,
              nextKey |-> RandomNextSized(size, keys, nextKey, g).nextKey,
              g |-> RandomNextSized(size, keys, nextKey, g).g, draw |-> lastDraw]
      [] iterKind = "WeightedRandom" ->
             [thrown |-> WeightedNextSized(size, weights, g).thrown,
              ret |-> WeightedNextSized(size, weights, g).ret,
              cursor |-> nextElement, keys |-> keys, nextKey |-> nextKey,
              g |-> WeightedNextSized(size, weights, g).g,
              draw |-> WeightedNextSized(size, weights, g).draw]

\* IteratorInterface::next: returns a handle or throws "Container is empty."
SizedNext ==
    /\ ctor = "ok"
    /\ Len(emitted) + thrown < MaxEmit
    /\ nextElement' = SizedNextResult.cursor
    /\ keys' = SizedNextResult.keys
    /\ nextKey' = SizedNextResult.nextKey
    /\ g' = SizedNextResult.g
    /\ lastDraw' = SizedNextResult.draw
    /\ emitted' = IF SizedNextResult.thrown THEN emitted
                  ELSE Append(emitted, SizedNextResult.ret)
    /\ thrown' = IF SizedNextResult.thrown THEN thrown + 1 ELSE thrown
    /\ UNCHANGED <<iterKind, seed, weights>>
    /\ UNCHANGED <<provVars, histVars>>
    /\ UNCHANGED <<firstRun, iterResets>>
    /\ UNCHANGED <<size, wInput, ctor>>
    /\ UNCHANGED <<lockVars, oneHotVars, voteVars, laterVars>>

\* IteratorInterface::reset
SizedReset ==
    /\ ctor = "ok"
    /\ iterResets < MaxIterResets
    /\ nextElement' = IF iterKind = "Sequential" THEN SeqReset ELSE nextElement
    /\ keys' = IF iterKind = "Random" THEN ShuffleSized(size, keys, RngSeed(seed)).keys
               ELSE keys
    /\ nextKey' = IF iterKind = "Random" THEN 0 ELSE nextKey
    /\ g' = CASE iterKind = "Sequential" -> g
              [] iterKind = "Random" -> ShuffleSized(size, keys, RngSeed(seed)).g
              [] iterKind = "WeightedRandom" -> WeightedReset(seed)
    /\ iterResets' = iterResets + 1
    /\ UNCHANGED <<iterKind, seed, weights>>
    /\ UNCHANGED <<provVars, histVars>>
    /\ UNCHANGED <<emitted, firstRun>>
    /\ UNCHANGED <<sizedVars, lockVars, oneHotVars, voteVars, laterVars>>

NextSized ==
    \/ SizedConstruct
    \/ SizedConstructFails
    \/ SizedNext
    \/ SizedReset

SpecSized == InitSized /\ [][NextSized]_vars

\* C16: next() on an iterator over an empty container raises an error on
\* every call, for the three kinds: no call has returned a handle, and every
\* call made was counted as thrown.
C16_EmptyAlwaysThrows ==
    (ctor = "ok" /\ size = 0) => emitted = <<>>

\* C16 witness: a RandomIterator over an empty container has thrown on two
\* calls of next(), one before and one after a reset().
C16_Witness ==
    /\ ctor = "ok"
    /\ size = 0
    /\ iterKind = "Random"
    /\ thrown >= 2
    /\ iterResets >= 1
    /\ emitted = <<>>

\* the weights handed to the constructor are all zero
AllZero(w) == \A k \in DOMAIN w : w[k] = 0

\* C17: a WeightedRandom iterator whose weights are all zero is rejected at
\* construction: the constructor does not return an iterator.
C17_ZeroWeightsRejected ==
    (iterKind = "WeightedRandom" /\ size > 0 /\ ~WeightsMismatch(size, wInput)
       /\ AllZero(wInput)) => ctor # "ok"

\* the draw lies in the half-open interval [c_(j-1), c_j) of element j
C18_Contains(j) ==
    LET prev == IF j = 0 THEN 0 ELSE weights.cum[j - 1]
    IN  /\ weights.sum > 0
        /\ prev * RngMod <= lastDraw * weights.sum
        /\ lastDraw * weights.sum < weights.cum[j] * RngMod

\* C18: WeightedRandomIterator::next returns the one element whose half-open
\* interval of the cumulative weights holds the draw, and the last element
\* when no interval holds it; no draw lies in two intervals.
C18_InverseCdf ==
    (iterKind = "WeightedRandom" /\ ctor = "ok" /\ lastDraw # -1 /\ Len(emitted) >= 1) =>
        LET ret == emitted[Len(emitted)]
            holding == {j \in Indices(size) : C18_Contains(j)}
        IN  /\ Cardinality(holding) <= 1
            /\ holding # {} => holding = {ret}
            /\ holding = {} => ret = size - 1

\* C18 witness: the draw equals the upper end of the interval of an element
\* that is not the last one, and next() has returned the element after it.
C18_Witness ==
    /\ iterKind = "WeightedRandom"
    /\ ctor = "ok"
    /\ lastDraw # -1
    /\ Len(emitted) >= 1
    /\ \E j \in Indices(size - 1) :
          /\ weights.sum > 0
          /\ lastDraw * weights.sum = weights.cum[j] * RngMod
          /\ emitted[Len(emitted)] > j

(***************************************************************************)
(* DataProvider::encode_onehot over the targets of one batch.  A target    *)
(* has NumPixels pixels (rows * cols, pixel p = i * cols + j); the tensor  *)
(* batch->targets has shape (batchSize, numClasses, rows, cols) and is     *)
(* stored flat in targets.data, which operator[] indexes unchecked.        *)
(***************************************************************************)
\* pixels of a target image
NumPixels == 2
\* largest numClasses the provider is constructed with
MaxClasses == 2
\* the labels of a target are 0 .. MaxLabel and the void label
MaxLabel == 2

\* the label encode_onehot skips
VoidLabel == 255

LabelValues == (0 .. MaxLabel) \cup {VoidLabel}
Pixels == 0 .. (NumPixels - 1)

\* targets.getSize(): batchSize * numClasses * rows * cols
TensorSize(nc) == BatchSize * nc * NumPixels

\* const int targetOffset = numClasses * targetSize[0] * targetSize[1]
TargetOffset(nc) == nc * NumPixels

\* int index = offset + val * imgSize + i * target.cols + j, with the offset
\* b * targetOffset that loadBatch passes for batch item b
OneHotIndex(nc, b, val, p) == b * TargetOffset(nc) + val * NumPixels + p

\* the indices encode_onehot stores 1.0f at for batch item b
OneHotStores(nc, lab, b) ==
    { OneHotIndex(nc, b, lab[b][p], p) : p \in {q \in Pixels : lab[b][q] # VoidLabel} }

\* loadBatch has allocated the batch and run batch->targets.fill(0.0f); the
\* targets of the batch items are loaded
InitOneHot ==
    /\ numClasses \in 1 .. MaxClasses
    /\ labels \in [Slots -> [Pixels -> LabelValues]]
    /\ targets = [x \in 0 .. (TensorSize(numClasses) - 1) |-> 0]
    /\ overrun = FALSE
    /\ encoded = {}
    /\ InitSequentialIterator
    /\ ProviderFresh
    /\ recording = FALSE
    /\ NoRun
    /\ NoLock
    /\ NoSized
    /\ NoVote
    /\ NoLater

\* iteration b of the parallel for: encode_onehot(pair.target, batch->targets,
\* b * targetOffset)
EncodeOnehot(b) ==
    /\ b \notin encoded
    /\ targets' = [x \in DOMAIN targets |->
                      IF x \in OneHotStores(numClasses, labels, b) THEN 1 ELSE targets[x]]
    /\ overrun' = (overrun \/ \E x \in OneHotStores(numClasses, labels, b) :
                                  x >= TensorSize(numClasses))
    /\ encoded' = encoded \cup {b}
    /\ UNCHANGED <<numClasses, labels>>
    /\ UNCHANGED <<iterVars, provVars, histVars>>
    /\ UNCHANGED <<emitted, firstRun, iterResets>>
    /\ UNCHANGED <<lockVars, sizedVars, voteVars, laterVars>>

NextOneHot == \E b \in Slots : EncodeOnehot(b)

SpecOneHot == InitOneHot /\ [][NextOneHot]_vars

\* targets[b, c, y, x] of the flat tensor, pixel p = (y, x)
TargetAt(b, c, p) == targets[b * TargetOffset(numClasses) + c * NumPixels + p]

\* the classes whose plane holds a 1 at pixel p of batch item b
Hot(b, p) == {c \in 0 .. (numClasses - 1) : TargetAt(b, c, p) = 1}

\* C19: in a batch whose items are all encoded, at every pixel the one-hot
\* planes sum to 0 or 1, to 0 exactly for the void label 255, and plane c
\* holds 1 exactly when the label is c, for every label value and every
\* numClasses; no store leaves the tensor.
C19_OneHot ==
    encoded = Slots =>
        /\ ~overrun
        /\ \A b \in Slots, p \in Pixels :
              /\ Cardinality(Hot(b, p)) <= 1
              /\ (Hot(b, p) = {}) <=> (labels[b][p] = VoidLabel)
              /\ \A c \in 0 .. (numClasses - 1) :
                    (TargetAt(b, c, p) = 1) <=> (labels[b][p] = c)

(***************************************************************************)
(* SubsampleAugmentor::resizeTarget: each pixel of the subsampled target   *)
(* is voted by the factor x factor block of the target it stands for.  The *)
(* inner loops count the labels of the block into histogram, one pixel per *)
(* step; the vote follows once the block is counted.                       *)
(***************************************************************************)
\* largest subsampling factor
MaxFactor == 3

\* the values of an 8-bit label, the index range of int histogram[256]
LabelRange == 0 .. 255

\* int histogram[256] = {0}
EmptyHistogram == [k \in LabelRange |-> 0]

\* if (histogram[k] > histogram[mode]) mode = k: a later label replaces the
\* mode only with a strictly larger count
Better(h, mode, k) == IF h[k] > h[mode] THEN k ELSE mode

\* for (k = 0; k < 256; k++) ...: the scan over the labels lo .. hi, which
\* ends at the least label of largest count; the range is split in halves
RECURSIVE ModeScan(_, _, _)
ModeScan(h, lo, hi) ==
    IF lo = hi THEN lo
    ELSE LET mid == (lo + hi) \div 2
             first == ModeScan(h, lo, mid)
             second == ModeScan(h, mid + 1, hi)
         IN  Better(h, first, second)

\* the mode of the histogram, int mode = 0 before the scan
Mode(h) == ModeScan(h, 0, 255)

\* a threshold rounded up instead of down
HalfRegionSizeUp(f) == (f * f + 1) \div 2

\* const int halfRegionSize = factor * factor / 2
HalfRegionSize(f) == (f * f) \div 2

\* if (histogram[mode] > halfRegionSize) mode else 255
VotePixel(h, f) == IF h[Mode(h)] > HalfRegionSize(f) THEN Mode(h) ELSE VoidLabel

\* chianti/augmentation.h, resizeLabels:
\* if (bestLabelFrequency > 0.5 * samplingFactor * samplingFactor) bestLabel else 255
LegacyVotePixel(h, f) == IF 2 * h[Mode(h)] > f * f THEN Mode(h) ELSE VoidLabel

\* the histogram of block (i, j) of a target given as a tuple of rows
BlockHistogram(target, i, j, f) ==
    [k \in LabelRange |->
        Cardinality({rc \in ((i * f + 1) .. ((i + 1) * f)) \X ((j * f + 1) .. ((j + 1) * f)) :
                        target[rc[1]][rc[2]] = k})]

\* resizeTarget over a whole target: rows / factor by cols / factor pixels
ResizeTarget(target, f) ==
    [i \in 1 .. (Len(target) \div f) |->
        [j \in 1 .. (Len(target[1]) \div f) |->
            VotePixel(BlockHistogram(target, i - 1, j - 1, f), f)]]

\* a block of the target is about to be counted
InitVote ==
    /\ factor \in 1 .. MaxFactor
    /\ histogram = EmptyHistogram
    /\ pixelsRead = 0
    /\ voted = -1
    /\ InitSequentialIterator
    /\ ProviderFresh
    /\ recording = FALSE
    /\ NoRun
    /\ NoLock
    /\ NoSized
    /\ NoOneHot
    /\ NoLater

\* one step of the inner loops: histogram[target.at<uchar>(_i, _j)]++
CountPixel ==
    /\ voted = -1
    /\ pixelsRead < factor * factor
    /\ \E l \in LabelValues : histogram' = [histogram EXCEPT ![l] = @ + 1]
    /\ pixelsRead' = pixelsRead + 1
    /\ UNCHANGED <<factor, voted>>
    /\ UNCHANGED <<iterVars, provVars, histVars>>
    /\ UNCHANGED <<emitted, firstRun, iterResets>>
    /\ UNCHANGED <<lockVars, sizedVars, oneHotVars, laterVars>>

\* the block is counted: the mode is determined and tNew.at<uchar>(i, j) written
VoteBlock ==
    /\ voted = -1
    /\ pixelsRead = factor * factor
    /\ voted' = VotePixel(histogram, factor)
    /\ UNCHANGED <<factor, histogram, pixelsRead>>
    /\ UNCHANGED <<iterVars, provVars, histVars>>
    /\ UNCHANGED <<emitted, firstRun, iterResets>>
    /\ UNCHANGED <<lockVars, sizedVars, oneHotVars, laterVars>>

NextVote == CountPixel \/ VoteBlock

SpecVote == InitVote /\ [][NextVote]_vars

\* the 4x4 target of the example and a 2x2 block with two labels tied
C20_Example == << <<1, 1, 2, 3>>, <<1, 1, 2, 2>>, <<3, 3, 4, 4>>, <<3, 3, 4, 4>> >>
C20_Tied == << <<1, 1>>, <<2, 2>> >>

\* C20: for every factor, even or odd, the pixel voted for a block is the
\* label that occupies more than half of the block's factor * factor pixels,
\* and the void label 255 when no label does; the legacy resizeLabels votes
\* the same; the 4x4 example subsamples to ((1, 2), (3, 4)) with factor 2 and
\* a tied block gives 255 (the two examples do not depend on the state and
\* are evaluated where no pixel has been counted yet).
C20_SubsampleVote ==
    /\ voted # -1 =>
          /\ \A X \in LabelRange : 2 * histogram[X] > factor * factor => voted = X
          /\ (\A X \in LabelRange : 2 * histogram[X] <= factor * factor) => voted = VoidLabel
          /\ LegacyVotePixel(histogram, factor) = voted
    /\ pixelsRead = 0 =>
          /\ ResizeTarget(C20_Example, 2) = << <<1, 2>>, <<3, 4>> >>
          /\ ResizeTarget(C20_Tied, 2) = << <<VoidLabel>> >>

\* C20 witness: an odd factor above 1, and the voted label occupies the
\* least number of pixels that is more than half of the block.
C20_Witness ==
    /\ factor > 1
    /\ factor % 2 = 1
    /\ voted # -1
    /\ voted # VoidLabel
    /\ 2 * histogram[voted] = factor * factor + 1

(***************************************************************************)
(* Further components.  Each has its state in one record variable; the     *)
(* rest of the state is idle while it runs.                                *)
(***************************************************************************)
restVars == <<iterVars, provVars, histVars, emitted, firstRun, iterResets,
              lockVars, sizedVars, oneHotVars, voteVars>>

RestIdle ==
    /\ InitSequentialIterator
    /\ ProviderFresh
    /\ recording = FALSE
    /\ NoRun
    /\ NoLock
    /\ NoSized
    /\ NoOneHot
    /\ NoVote

(***************************************************************************)
(* TranslationAugmentor::augment.  The pair has h rows and w columns, a    *)
(* pixel (i, j) is kept at index i * w + j.  The target holds at each      *)
(* pixel a label that names the pixel, so that the output shows where each *)
(* of its pixels was read.                                                 *)
(***************************************************************************)
\* largest number of rows and of columns of a pair
MaxDim == 2
\* largest offset the augmentor is constructed with
MaxOffset == 2

\* pair.target: pixel (i, j) of a plane of w columns holds 10 * (i * w + j + 1)
TargetPlane(h, w) == [p \in 0 .. (h * w - 1) |-> 10 * (p + 1)]

\* a read position taken against the offset
SourceCoordBack(c, t) == c - t

\* int _i = i + translation_x; int _j = j + translation_y
SourceCoord(c, t) == c + t

\* the test that sets outOfScore for a coordinate c of a plane of n rows or columns
OutOfScore(c, n) == c < 0 \/ c >= n

\* if (_i < 0) _i = std::abs(_i); else if (_i >= rows) _i = 2 * rows - _i - 1
Reflect(c, n) == IF c < 0 THEN 0 - c ELSE IF c >= n THEN 2 * n - c - 1 ELSE c

\* the offsets d(g) can return for an augmentor constructed with offset d:
\* uniform_int_distribution(-abs(offset), abs(offset))
Offsets(d) == (0 - d) .. d

\* the augmentor is constructed with offset d and has drawn (tx, ty); the pair
\* to augment has h x w pixels, image and target of the same size or not
InitTranslate ==
    /\ \E h \in 1 .. MaxDim, w \in 1 .. MaxDim, d \in 0 .. MaxOffset, same \in BOOLEAN :
         \E tx \in Offsets(d), ty \in Offsets(d) :
            translation = [h |-> h, w |-> w, d |-> d, same |-> same, tx |-> tx, ty |-> ty,
                           pos |-> 0, tNew |-> [p \in 0 .. (h * w - 1) |-> -1],
                           reads |-> {}, state |-> "ready"]
    /\ crop = <<>>
    /\ config = <<>>
    /\ remap = <<>>
    /\ tensor = <<>>
    /\ legacy = <<>>
    /\ RestIdle

\* image and target differ in size: throw std::runtime_error
TranslationThrows ==
    /\ translation.state = "ready"
    /\ ~translation.same
    /\ translation' = [translation EXCEPT !.state = "threw"]
    /\ UNCHANGED <<restVars, crop, config, remap, tensor, legacy>>

\* one iteration of the loops over (i, j): the read position, its reflection,
\* the read of the image at the reflected position, the write of tNew
TranslatePixel ==
    /\ translation.state = "ready"
    /\ translation.same
    /\ translation.pos < translation.h * translation.w
    /\ LET i == translation.pos \div translation.w
           j == translation.pos % translation.w
           si == SourceCoord(i, translation.tx)
           sj == SourceCoord(j, translation.ty)
           out == OutOfScore(si, translation.h) \/ OutOfScore(sj, translation.w)
           ri == Reflect(si, translation.h)
           rj == Reflect(sj, translation.w)
           val == IF out THEN VoidLabel
                  ELSE TargetPlane(translation.h, translation.w)[ri * translation.w + rj]
       IN  translation' = [translation EXCEPT !.pos = @ + 1,
                                              !.tNew[translation.pos] = val,
                                              !.reads = @ \cup {<<ri, rj>>}]
    /\ UNCHANGED <<restVars, crop, config, remap, tensor, legacy>>

\* the loops have ended: pair.image = iNew; pair.target = tNew
TranslationDone ==
    /\ translation.state = "ready"
    /\ translation.same
    /\ translation.pos = translation.h * translation.w
    /\ translation' = [translation EXCEPT !.state = "done"]
    /\ UNCHANGED <<restVars, crop, config, remap, tensor, legacy>>

NextTranslate == TranslationThrows \/ TranslatePixel \/ TranslationDone

SpecTranslate == InitTranslate /\ [][NextTranslate]_vars

\* the general rule: an output pixel whose read position (i + tx, j + ty) is
\* outside the plane is 255, every other output pixel is the target at its
\* read position
C21_GeneralRule ==
    \A i \in 0 .. (translation.h - 1), j \in 0 .. (translation.w - 1) :
        LET si == i + translation.tx
            sj == j + translation.ty
            inside == si \in 0 .. (translation.h - 1) /\ sj \in 0 .. (translation.w - 1)
        IN  translation.tNew[i * translation.w + j] =
                IF inside THEN TargetPlane(translation.h, translation.w)[si * translation.w + sj]
                ELSE VoidLabel

\* the run of the scenario: a 2x2 pair translated by (tx, ty) = (1, 0)
C21_Scenario ==
    /\ translation.state = "done"
    /\ translation.h = 2
    /\ translation.w = 2
    /\ translation.tx = 1
    /\ translation.ty = 0

\* C21 as stated: translation by (1, 0) of the 2x2 target ((10, 20), (30, 40))
\* gives ((255, 255), (10, 20)), and the general rule holds of every run.
C21_TranslationScenario ==
    translation.state = "done" =>
        /\ C21_GeneralRule
        /\ C21_Scenario => translation.tNew = (0 :> 255 @@ 1 :> 255 @@ 2 :> 10 @@ 3 :> 20)

\* C21 amended: translation by (1, 0) of the 2x2 target ((10, 20), (30, 40))
\* gives ((30, 40), (255, 255)): output row 0 reads row 1 and output row 1
\* reads outside the plane; the general rule holds of every run.
C21_TranslationScenarioAmended ==
    translation.state = "done" =>
        /\ C21_GeneralRule
        /\ C21_Scenario => translation.tNew = (0 :> 30 @@ 1 :> 40 @@ 2 :> 255 @@ 3 :> 255)

\* C21 witness: the scenario has run.
C21_Witness == C21_Scenario /\ translation.pos = 4

\* C28: every position the image is read at, after the reflection rule, lies
\* inside the plane, for every offset d >= 0 and every size of the pair.
C28_ReadsInside ==
    translation.state \in {"ready", "done"} =>
        \A r \in translation.reads :
            r[1] \in 0 .. (translation.h - 1) /\ r[2] \in 0 .. (translation.w - 1)


(***************************************************************************)
(* CropAugmentor.  The target has h rows and w columns, pixel (i, j) at    *)
(* index i * w + j.  histograms is a cv::Mat of (h - s) x (w - s) x nc     *)
(* ints, element (i, j, c) at index (i * (w - s) + j) * nc + c.  A store   *)
(* outside the matrix is undefined behaviour: the run ends in "overrun".   *)
(***************************************************************************)
\* largest number of rows and of columns of a target to crop
MaxCropDim == 3
\* largest numClasses of a CropAugmentor
MaxCropClasses == 2
\* the labels of a target to crop: the classes and the void label
CropLabels == (0 .. (MaxCropClasses - 1)) \cup {VoidLabel}

\* int sizes[] = {target.rows - size, target.cols - size, numClasses}
HistRows(cr) == cr.h - cr.s

HistCols(cr) == cr.w - cr.s

\* the number of elements of histograms
HistSize(cr) == HistRows(cr) * HistCols(cr) * cr.nc

\* the element histograms.at<int>(i, j, c)
HistIndex(cr, i, j, c) == (i * HistCols(cr) + j) * cr.nc + c

\* target.at<uchar>(i, j)
TargetAtPixel(cr, i, j) == cr.target[i * cr.w + j]

\* histograms.at<int>(i, j, c) += delta for a label c that is not 255;
\* hr is the matrix with the flag of a store outside it
UpdateHistogramCell(cr, hr, i, j, c, delta) ==
    IF c = VoidLabel THEN hr
    ELSE IF HistIndex(cr, i, j, c) \in 0 .. (HistSize(cr) - 1)
         THEN [hr EXCEPT !.hist[HistIndex(cr, i, j, c)] = @ + delta]
         ELSE [hr EXCEPT !.over = TRUE]

\* a sequence ups of <<label, delta>> applied to cell (i, j)
RECURSIVE ApplyUpdates(_, _, _, _, _)
ApplyUpdates(cr, hr, i, j, ups) ==
    IF ups = <<>> THEN hr
    ELSE ApplyUpdates(cr,
                      UpdateHistogramCell(cr, hr, i, j, Head(ups)[1], Head(ups)[2]),
                      i, j, Tail(ups))

\* histograms.at<int>(i, j, c) = value[c] for every c < numClasses
CopyHistogram(cr, hr, i, j, value) ==
    IF \A c \in 0 .. (cr.nc - 1) : HistIndex(cr, i, j, c) \in 0 .. (HistSize(cr) - 1)
    THEN [hr EXCEPT !.hist = [x \in DOMAIN hr.hist |->
                                 IF x \in {HistIndex(cr, i, j, c) : c \in 0 .. (cr.nc - 1)}
                                 THEN value[x - HistIndex(cr, i, j, 0)]
                                 ELSE hr.hist[x]]]
    ELSE [hr EXCEPT !.over = TRUE]

\* the value of a matrix element that was stored inside the matrix
HistAt(cr, hr, i, j, c) == hr.hist[HistIndex(cr, i, j, c)]

\* computeHistogram0: counts the window at the origin from scratch
computeHistogram0(cr, hr, i, j) ==
    ApplyUpdates(cr, hr, i, j,
                 [k \in 1 .. (cr.s * cr.s) |->
                     <<TargetAtPixel(cr, (k - 1) \div cr.s, (k - 1) % cr.s), 1>>])

\* computeHistogram1Left: the histogram to the left, less column j - 1, plus column j + s - 1
computeHistogram1Left(cr, hr, i, j) ==
    LET copied == CopyHistogram(cr, hr, i, j, [c \in 0 .. (cr.nc - 1) |-> HistAt(cr, hr, i, j - 1, c)])
    IN  IF copied.over THEN copied
        ELSE ApplyUpdates(cr, copied, i, j,
                 [k \in 1 .. (2 * cr.s) |->
                     IF k % 2 = 1
                     THEN <<TargetAtPixel(cr, i + (k - 1) \div 2, j - 1), -1>>
                     ELSE <<TargetAtPixel(cr, i + (k - 1) \div 2, j + cr.s - 1), 1>>])

\* computeHistogram1Up: the histogram above, less row i - 1, plus row i + s - 1
computeHistogram1Up(cr, hr, i, j) ==
    LET copied == CopyHistogram(cr, hr, i, j, [c \in 0 .. (cr.nc - 1) |-> HistAt(cr, hr, i - 1, j, c)])
    IN  IF copied.over THEN copied
        ELSE ApplyUpdates(cr, copied, i, j,
                 [k \in 1 .. (2 * cr.s) |->
                     IF k % 2 = 1
                     THEN <<TargetAtPixel(cr, i - 1, j + (k - 1) \div 2), -1>>
                     ELSE <<TargetAtPixel(cr, i + cr.s - 1, j + (k - 1) \div 2), 1>>])

\* computeHistogram3: h(i-1, j) + h(i, j-1) - h(i-1, j-1) and the four corners
computeHistogram3(cr, hr, i, j) ==
    LET copied == CopyHistogram(cr, hr, i, j,
                      [c \in 0 .. (cr.nc - 1) |->
                          HistAt(cr, hr, i - 1, j, c) + HistAt(cr, hr, i, j - 1, c)
                          - HistAt(cr, hr, i - 1, j - 1, c)])
    IN  IF copied.over THEN copied
        ELSE ApplyUpdates(cr, copied, i, j,
                 << <<TargetAtPixel(cr, i - 1, j - 1), 1>>,
                    <<TargetAtPixel(cr, i - 1, j + cr.s - 1), -1>>,
                    <<TargetAtPixel(cr, i + cr.s - 1, j - 1), -1>>,
                    <<TargetAtPixel(cr, i + cr.s - 1, j + cr.s - 1), 1>> >>)

\* the call computeClassHistograms makes for cell (i, j)
ComputeCell(cr, hr, i, j) ==
    IF i = 0 /\ j = 0 THEN computeHistogram0(cr, hr, i, j)
    ELSE IF i = 0 THEN computeHistogram1Left(cr, hr, i, j)
    ELSE IF j = 0 THEN computeHistogram1Up(cr, hr, i, j)
    ELSE computeHistogram3(cr, hr, i, j)

\* the loops of computeClassHistograms: j < target.cols - size inside
\* i < target.rows - size; <<-1, -1>> when both have ended
NextCell(cr, i, j) ==
    IF j + 1 < HistCols(cr) THEN <<i, j + 1>>
    ELSE IF i + 1 < HistRows(cr) THEN <<i + 1, 0>>
    ELSE <<-1, -1>>

\* computeCumulativeDistribution: the entropy of a cell is positive when two
\* classes have a positive count, and 0 otherwise
PositiveEntropy(cr, k) ==
    Cardinality({c \in 0 .. (cr.nc - 1) : cr.hist[k * cr.nc + c] > 0}) >= 2

\* samplePosition: the index k the scan stops at.  u falls in the interval of
\* a cell of positive entropy; when the entropies sum to 0 the distribution
\* is NaN, no comparison succeeds and k ends as distribution.cols
SampledIndices(cr) ==
    LET cells == 0 .. (HistRows(cr) * HistCols(cr) - 1)
        positive == {k \in cells : PositiveEntropy(cr, k)}
    IN  IF positive = {} THEN {HistRows(cr) * HistCols(cr)} ELSE positive

\* a CropAugmentor(s, nc) is given a pair whose target has h x w pixels,
\* s <= min(h, w); histograms is allocated and zeroed
InitCrop ==
    /\ \E h \in 1 .. MaxCropDim, w \in 1 .. MaxCropDim, nc \in 1 .. MaxCropClasses :
         \E s \in 1 .. (IF h < w THEN h ELSE w) :
            \E t \in [0 .. (h * w - 1) -> CropLabels] :
               crop = [h |-> h, w |-> w, s |-> s, nc |-> nc, target |-> t,
                       hist |-> [x \in 0 .. ((h - s) * (w - s) * nc - 1) |-> 0],
                       over |-> FALSE, cell |-> <<0, 0>>, cells |-> {},
                       pos |-> <<-1, -1>>, state |-> "histograms"]
    /\ translation = <<>>
    /\ config = <<>>
    /\ remap = <<>>
    /\ tensor = <<>>
    /\ legacy = <<>>
    /\ RestIdle

\* one call of computeHistogram0 / 1Left / 1Up / 3 by computeClassHistograms
CropHistogramCell ==
    /\ crop.state = "histograms"
    /\ crop.cell # <<-1, -1>>
    /\ LET hr == ComputeCell(crop, [hist |-> crop.hist, over |-> FALSE],
                             crop.cell[1], crop.cell[2])
       IN  crop' = [crop EXCEPT !.hist = hr.hist,
                                !.over = hr.over,
                                !.cells = IF hr.over THEN @ ELSE @ \cup {crop.cell},
                                !.cell = NextCell(crop, crop.cell[1], crop.cell[2]),
                                !.state = IF hr.over THEN "overrun" ELSE "histograms"]
    /\ UNCHANGED <<restVars, translation, config, remap, tensor, legacy>>

\* computeCumulativeDistribution, samplePosition and the extraction of the
\* window; k / (target.cols - size) divides by zero when size = target.cols
CropSample ==
    /\ crop.state = "histograms"
    /\ crop.cell = <<-1, -1>>
    /\ IF HistCols(crop) = 0
       THEN crop' = [crop EXCEPT !.state = "undefined"]
       ELSE \E k \in SampledIndices(crop) :
               crop' = [crop EXCEPT !.state = "done",
                                    !.pos = <<k \div HistCols(crop),
                                              k - (k \div HistCols(crop)) * HistCols(crop)>>]
    /\ UNCHANGED <<restVars, translation, config, remap, tensor, legacy>>

NextCrop == CropHistogramCell \/ CropSample

SpecCrop == InitCrop /\ [][NextCrop]_vars

\* the top-left positions with 0 <= i <= H - s and 0 <= j <= W - s
ValidPositions == (0 .. (crop.h - crop.s)) \X (0 .. (crop.w - crop.s))

\* C22: no crop of size s <= min(H, W) runs into undefined behaviour, and once
\* the position is sampled a histogram has been computed for exactly the
\* top-left positions (i, j) with 0 <= i <= H - s, 0 <= j <= W - s and the
\* s x s window at the sampled position lies inside the plane.
C22_CropCandidates ==
    /\ crop.state \notin {"overrun", "undefined"}
    /\ crop.state = "done" =>
          /\ crop.cells = ValidPositions
          /\ crop.pos[1] >= 0 /\ crop.pos[1] + crop.s <= crop.h
          /\ crop.pos[2] >= 0 /\ crop.pos[2] + crop.s <= crop.w

\* the number of pixels with label c in rows i .. i+s-1, columns j .. j+s-1
BruteForceCount(i, j, c) ==
    Cardinality({px \in (i .. (i + crop.s - 1)) \X (j .. (j + crop.s - 1)) :
                    TargetAtPixel(crop, px[1], px[2]) = c})

\* C25: computeClassHistograms stores inside the matrix only, and every
\* histogram it has computed is a cell of the matrix and equals the brute-force
\* count of its window for every class c < num_classes.
C25_HistogramsExact ==
    /\ crop.state # "overrun"
    /\ crop.state \in {"histograms", "done"} =>
          \A cl \in crop.cells : \A c \in 0 .. (crop.nc - 1) :
              /\ HistIndex(crop, cl[1], cl[2], c) \in DOMAIN crop.hist
              /\ crop.hist[HistIndex(crop, cl[1], cl[2], c)] = BruteForceCount(cl[1], cl[2], c)


(***************************************************************************)
(* Construction of a DataProvider with an arbitrary batch size, and what   *)
(* the object does with it afterwards.                                     *)
(***************************************************************************)
\* the batch sizes a caller can pass: int _batchSize
BatchSizes == (0 - BatchSize) .. BatchSize

\* a / b of two ints, b # 0: the quotient truncated towards zero
TruncDiv(a, b) ==
    IF (a >= 0) = (b > 0)
    THEN (IF a >= 0 THEN a ELSE 0 - a) \div (IF b > 0 THEN b ELSE 0 - b)
    ELSE 0 - ((IF a >= 0 THEN a ELSE 0 - a) \div (IF b > 0 THEN b ELSE 0 - b))

\* the caller is about to construct a provider over an iterator of n elements
InitConfig ==
    /\ \E bs \in BatchSizes, n \in 1 .. NumFiles :
          config = [batchSize |-> bs, numElements |-> n, state |-> "requested",
                    counted |-> FALSE, numBatches |-> 0, pulls |-> 0, taken |-> 0]
    /\ translation = <<>>
    /\ crop = <<>>
    /\ remap = <<>>
    /\ tensor = <<>>
    /\ legacy = <<>>
    /\ RestIdle

\* DataProvider::DataProvider: the member initialisers store _batchSize; the
\* body is empty
ConfigConstruct ==
    /\ config.state = "requested"
    /\ config' = [config EXCEPT !.state = "constructed"]
    /\ UNCHANGED <<restVars, translation, crop, remap, tensor, legacy>>

\* DataProvider::init: the worker thread is spawned
ConfigInit ==
    /\ config.state = "constructed"
    /\ config' = [config EXCEPT !.state = "initialized"]
    /\ UNCHANGED <<restVars, translation, crop, remap, tensor, legacy>>

\* loadBatch, one round of the worker: the tensors are sized by batchSize (a
\* negative size makes data.resize throw in the worker thread, which
\* terminates the process) and the loop pulls batchSize filenames
ConfigLoadBatch ==
    /\ config.state = "initialized"
    /\ IF config.batchSize < 0
       THEN config' = [config EXCEPT !.state = "terminated"]
       ELSE config' = [config EXCEPT !.state = "assembled",
                                     !.pulls = @ + config.batchSize]
    /\ UNCHANGED <<restVars, translation, crop, remap, tensor, legacy>>

\* DataProvider::next: the consumer takes the assembled batch
ConfigTake ==
    /\ config.state = "assembled"
    /\ config.taken < MaxTake
    /\ config' = [config EXCEPT !.state = "initialized", !.taken = @ + 1]
    /\ UNCHANGED <<restVars, translation, crop, remap, tensor, legacy>>

\* getNumBatches: iterator->getNumElements() / batchSize; the division by 0 is
\* undefined behaviour
ConfigGetNumBatches ==
    /\ config.state \in {"constructed", "initialized", "assembled"}
    /\ ~config.counted
    /\ IF config.batchSize = 0
       THEN config' = [config EXCEPT !.state = "undefined"]
       ELSE config' = [config EXCEPT !.counted = TRUE,
                                     !.numBatches = TruncDiv(config.numElements,
                                                             config.batchSize)]
    /\ UNCHANGED <<restVars, translation, crop, remap, tensor, legacy>>

NextConfig ==
    \/ ConfigConstruct
    \/ ConfigInit
    \/ ConfigLoadBatch
    \/ ConfigTake
    \/ ConfigGetNumBatches

SpecConfig == InitConfig /\ [][NextConfig]_vars

\* C23: a provider with batch_size <= 0 never leaves construction: it is not
\* constructed, so init() spawns no worker for it, no batch is assembled and
\* getNumBatches() never divides by its batch size.
C23_BatchSizeRejected ==
    config.batchSize <= 0 => config.state = "requested"


(***************************************************************************)
(* CSLabelTransformationAugmentation: the remap of one target pixel.       *)
(***************************************************************************)
\* fillTransformationTable: entry k + 1 of the tuple is transformationTable[k]
TransformationTable ==
    <<255, 255, 255, 255, 255, 255, 255, 0, 1, 255,
      255, 2, 3, 4, 255, 255, 255, 5, 255, 6,
      7, 8, 9, 10, 11, 12, 13, 14, 15, 255,
      255, 16, 17, 18>>

\* transformationTable.resize(34)
TableSize == Len(TransformationTable)

\* a target pixel holds a raw 8-bit label
InitRemap ==
    /\ \E v \in LabelRange :
          remap = [value |-> v, state |-> "ready", inside |-> TRUE, result |-> v]
    /\ translation = <<>>
    /\ crop = <<>>
    /\ config = <<>>
    /\ tensor = <<>>
    /\ legacy = <<>>
    /\ RestIdle

\* augment, one pixel: target(i, j) = static_cast<uchar>(transformationTable[target(i, j)]).
\* operator[] of the vector is unchecked: an index past the 34 entries reads
\* whatever int lies behind the table, and the cast keeps its low 8 bits
RemapPixel ==
    /\ remap.state = "ready"
    /\ IF remap.value < TableSize
       THEN remap' = [remap EXCEPT !.state = "done",
                                   !.result = TransformationTable[remap.value + 1]]
       ELSE \E r \in LabelRange :
               remap' = [remap EXCEPT !.state = "done", !.inside = FALSE, !.result = r]
    /\ UNCHANGED <<restVars, translation, crop, config, tensor, legacy>>

NextRemap == RemapPixel

SpecRemap == InitRemap /\ [][NextRemap]_vars

\* C24: the remap of every raw 8-bit label reads inside the 34 entries and
\* gives a training id in 0 .. 18 or 255; every raw value >= 34, the value
\* 255 included, gives 255.
C24_RemapTotal ==
    remap.state = "done" =>
        /\ remap.inside
        /\ remap.result \in (0 .. 18) \cup {VoidLabel}
        /\ remap.value >= TableSize => remap.result = VoidLabel


(***************************************************************************)
(* The pulls of loadBatch's parallel loop, batch after batch: iteration i  *)
(* of the loop calls iterator->next() step-wise (lock, read, advance and   *)
(* unlock), and the loop ends when every iteration has ended.  No reset()  *)
(* is called.                                                              *)
(***************************************************************************)
\* the number of batches assembled
MaxBatches == 2

\* iteration i of the loop enters next(): lock(accessMutex)
PullLock(i) ==
    /\ caller[i] = "idle"
    /\ Len(emitted) < MaxBatches * BatchSize
    /\ CanLockAccess
    /\ accessMutex' = i
    /\ caller' = [caller EXCEPT ![i] = "locked"]
    /\ UNCHANGED <<iterVars, provVars, histVars>>
    /\ UNCHANGED <<emitted, firstRun, iterResets, retVal>>
    /\ UNCHANGED <<sizedVars, oneHotVars, voteVars, laterVars>>

\* iteration i, inside next(): nextElement++ / nextKey++, return, unlock; the
\* iteration keeps the filename for load()
PullReturn(i) ==
    /\ caller[i] = "read"
    /\ nextElement' = IF iterKind = "Sequential" THEN nextElement + 1 ELSE nextElement
    /\ nextKey' = IF iterKind = "Random" THEN nextKey + 1 ELSE nextKey
    /\ emitted' = Append(emitted, retVal[i].ret)
    /\ accessMutex' = NoCaller
    /\ caller' = [caller EXCEPT ![i] = "pulled"]
    /\ UNCHANGED <<iterKind, keys, g, seed, weights>>
    /\ UNCHANGED <<provVars, histVars>>
    /\ UNCHANGED <<firstRun, iterResets, retVal>>
    /\ UNCHANGED <<sizedVars, oneHotVars, voteVars, laterVars>>

\* every iteration has pulled its filename
BatchPulled == \A i \in Slots : caller[i] = "pulled"

\* the end of the parallel loop; the worker goes on to the next batch
PullBarrier ==
    /\ BatchPulled
    /\ caller' = [i \in Slots |-> "idle"]
    /\ retVal' = [i \in Slots |-> NoRead]
    /\ UNCHANGED <<iterVars, provVars, histVars>>
    /\ UNCHANGED <<emitted, firstRun, iterResets, accessMutex>>
    /\ UNCHANGED <<sizedVars, oneHotVars, voteVars, laterVars>>

NextPull ==
    \/ \E i \in Slots : PullLock(i)
    \/ \E i \in Slots : ReadNext(i)
    \/ \E i \in Slots : PullReturn(i)
    \/ PullBarrier

SpecPull == InitIter /\ [][NextPull]_vars

\* the number of iterations of the loop that hold filename f
PulledCount(f) == Cardinality({i \in Slots : retVal[i].ret = f})

\* the number of times f occurs among (k * B + i) mod N, 0 <= i < B
ExpectedCount(k, f) ==
    Cardinality({i \in 0 .. (BatchSize - 1) : (k * BatchSize + i) % NumFiles = f})

\* C26: with a Sequential iterator and no reset, when the parallel loop of
\* batch k has ended, the filenames its iterations hold are the multiset
\* {(k * B + i) mod N : 0 <= i < B}, whatever the interleaving was: no
\* emission went to two iterations and none was skipped.
C26_BatchIsConsecutive ==
    (iterKind = "Sequential" /\ BatchPulled) =>
        \A f \in Files :
            PulledCount(f) = ExpectedCount(Len(emitted) \div BatchSize - 1, f)

\* C26 witness: the loop of the second batch has ended, and its last pull was
\* not made by the last iteration.
C26_Witness ==
    /\ iterKind = "Sequential"
    /\ BatchPulled
    /\ Len(emitted) = 2 * BatchSize
    /\ retVal[0].ret = emitted[Len(emitted)]


\* the region of the targets tensor that belongs to batch item b:
\* [b * C * H_t * W_t, (b + 1) * C * H_t * W_t)
TargetRegion(nc, b) == (b * TargetOffset(nc)) .. ((b + 1) * TargetOffset(nc) - 1)

\* C27: every store of the iteration of batch item b into the targets tensor
\* falls into the region of item b, for every 8-bit content of the targets: no
\* two iterations store to the same element and no store leaves the tensor.
C27_DisjointRegions ==
    \A b \in encoded :
        OneHotStores(numClasses, labels, b) \subseteq TargetRegion(numClasses, b)


(***************************************************************************)
(* Tensor<T, Rank>: a tensor a that is constructed, reshaped and filled,   *)
(* and a tensor b that is copy-constructed from a or assigned a.           *)
(***************************************************************************)
\* the rank of the tensors
TensorRank == 2
\* largest extent of a dimension
MaxTensorDim == 2
\* the values fill is called with; 0 is the value of a value-initialised element
TensorValues == {0, 1}

Shapes == [1 .. TensorRank -> 0 .. MaxTensorDim]

\* getSize(): the product of shape[0 .. Rank-1]
RECURSIVE SizeUpTo(_, _)
SizeUpTo(shape, r) == IF r = 0 THEN 1 ELSE SizeUpTo(shape, r - 1) * shape[r]

GetSize(shape) == SizeUpTo(shape, TensorRank)

\* data.resize(n): the first n elements, value-initialised elements appended
Resize(data, n) ==
    [k \in 1 .. n |-> IF k <= Len(data) THEN data[k] ELSE 0]

\* data.insert(data.begin(), other.begin(), other.end())
InsertAtBegin(data, other) == other \o data

\* Tensor(const std::array<int, Rank> & _shape)
NewTensor(shape) == [shape |-> shape, data |-> Resize(<<>>, GetSize(shape))]

\* reshape(newShape): shape = newShape; data.resize(getSize())
Reshape(t, newShape) == [shape |-> newShape, data |-> Resize(t.data, GetSize(newShape))]

\* Tensor(const Tensor & other): shape = other.shape; data.resize(getSize());
\* data.insert(data.begin(), other.data.begin(), other.data.end())
CopyTensor(other) ==
    [shape |-> other.shape,
     data |-> InsertAtBegin(Resize(<<>>, GetSize(other.shape)), other.data)]

\* operator=(other) for this != &other: reshape(other.shape); data.insert(...)
AssignTensor(t, other) ==
    [shape |-> other.shape,
     data |-> InsertAtBegin(Reshape(t, other.shape).data, other.data)]

\* a = Tensor(shape); b = Tensor(), whose shape is all zeros
InitTensor ==
    /\ \E shape \in Shapes :
          tensor = [a |-> NewTensor(shape),
                    b |-> NewTensor([r \in 1 .. TensorRank |-> 0]),
                    copied |-> FALSE]
    /\ translation = <<>>
    /\ crop = <<>>
    /\ config = <<>>
    /\ remap = <<>>
    /\ legacy = <<>>
    /\ RestIdle

\* a.reshape(newShape)
TensorReshape ==
    /\ \E shape \in Shapes :
          tensor' = [tensor EXCEPT !.a = Reshape(tensor.a, shape), !.copied = FALSE]
    /\ UNCHANGED <<restVars, translation, crop, config, remap, legacy>>

\* a.fill(val): std::fill(data.begin(), data.end(), val)
TensorFill ==
    /\ \E val \in TensorValues :
          tensor' = [tensor EXCEPT !.a.data = [k \in DOMAIN tensor.a.data |-> val],
                                   !.copied = FALSE]
    /\ UNCHANGED <<restVars, translation, crop, config, remap, legacy>>

\* Tensor b(a)
TensorCopyConstruct ==
    /\ tensor' = [tensor EXCEPT !.b = CopyTensor(tensor.a), !.copied = TRUE]
    /\ UNCHANGED <<restVars, translation, crop, config, remap, legacy>>

\* b = a
TensorAssign ==
    /\ tensor' = [tensor EXCEPT !.b = AssignTensor(tensor.b, tensor.a), !.copied = TRUE]
    /\ UNCHANGED <<restVars, translation, crop, config, remap, legacy>>

NextTensor == TensorReshape \/ TensorFill \/ TensorCopyConstruct \/ TensorAssign

SpecTensor == InitTensor /\ [][NextTensor]_vars

\* C29: the data of every tensor is as long as the product of its shape, and
\* a tensor copied from or assigned another has the shape and the elements of
\* its source.
C29_TensorInvariant ==
    /\ Len(tensor.a.data) = GetSize(tensor.a.shape)
    /\ Len(tensor.b.data) = GetSize(tensor.b.shape)
    /\ tensor.copied => tensor.b = tensor.a


(***************************************************************************)
(* The legacy Chianti::DataProvider: next() computes a batch itself when   *)
(* none is ready, and spawns a detached thread that computes the following *)
(* one.  Batches are numbered in the order computeNextBatch produces them: *)
(* with a Sequential iterator batch k holds the emissions k * B .. k * B + *)
(* B - 1.                                                                  *)
(***************************************************************************)
\* the number of next() calls of the consumer
MaxLegacyCalls == 4

\* holders of batchMutex
LegacyFree == 0

LegacyConsumer == 1

LegacyThread == 2

\* the constructor: nextBatch(nullptr), batchReady(false)
InitLegacy ==
    /\ legacy = [batchMutex |-> LegacyFree, batchReady |-> FALSE, nextBatch |-> NoItem,
                 computed |-> 0, returned |-> <<>>, lost |-> {},
                 pc |-> "idle", pending |-> 0, calls |-> 0]
    /\ translation = <<>>
    /\ crop = <<>>
    /\ config = <<>>
    /\ remap = <<>>
    /\ tensor = <<>>
    /\ RestIdle

\* computeNextBatch: nextBatch = make_shared(...); the loop pulls the next
\* batchSize elements; batchReady = true.  A batch that was ready and not
\* taken is dropped with the assignment
ComputeNextBatch(l) ==
    [l EXCEPT !.lost = IF l.batchReady THEN @ \cup {l.nextBatch} ELSE @,
              !.nextBatch = l.computed,
              !.computed = @ + 1,
              !.batchReady = TRUE]

\* next(): batchMutex.lock()
LegacyNextLock ==
    /\ legacy.pc = "idle"
    /\ legacy.calls < MaxLegacyCalls
    /\ legacy.batchMutex = LegacyFree
    /\ legacy' = [legacy EXCEPT !.batchMutex = LegacyConsumer, !.pc = "locked",
                                !.calls = @ + 1]
    /\ UNCHANGED <<restVars, translation, crop, config, remap, tensor>>

\* next(), under the mutex: if (!batchReady) computeNextBatch(); result =
\* nextBatch; batchReady = false; nextBatch = nullptr; batchMutex.unlock()
LegacyNextTake ==
    /\ legacy.pc = "locked"
    /\ LET l == IF legacy.batchReady THEN legacy ELSE ComputeNextBatch(legacy)
       IN  legacy' = [l EXCEPT !.returned = Append(@, l.nextBatch),
                               !.batchReady = FALSE,
                               !.nextBatch = NoItem,
                               !.batchMutex = LegacyFree,
                               !.pc = "spawn"]
    /\ UNCHANGED <<restVars, translation, crop, config, remap, tensor>>

\* next(): std::thread t(...); t.detach(); return result
LegacyNextSpawn ==
    /\ legacy.pc = "spawn"
    /\ legacy' = [legacy EXCEPT !.pending = @ + 1, !.pc = "idle"]
    /\ UNCHANGED <<restVars, translation, crop, config, remap, tensor>>

\* a detached thread: std::lock_guard<std::mutex> lock(batchMutex)
LegacyThreadLock ==
    /\ legacy.pending > 0
    /\ legacy.batchMutex = LegacyFree
    /\ legacy' = [legacy EXCEPT !.batchMutex = LegacyThread, !.pending = @ - 1]
    /\ UNCHANGED <<restVars, translation, crop, config, remap, tensor>>

\* the detached thread that holds the mutex: computeNextBatch(), unlock, exit
LegacyThreadCompute ==
    /\ legacy.batchMutex = LegacyThread
    /\ legacy' = [ComputeNextBatch(legacy) EXCEPT !.batchMutex = LegacyFree]
    /\ UNCHANGED <<restVars, translation, crop, config, remap, tensor>>

NextLegacy ==
    \/ LegacyNextLock
    \/ LegacyNextTake
    \/ LegacyNextSpawn
    \/ LegacyThreadLock
    \/ LegacyThreadCompute

SpecLegacy == InitLegacy /\ [][NextLegacy]_vars

\* C30: no batch is overwritten while it is ready, and the batches next()
\* returns are consecutive: none that computeNextBatch produced is skipped.
C30_LegacyNoBatchLost ==
    /\ legacy.lost = {}
    /\ \A n \in 1 .. (Len(legacy.returned) - 1) :
          legacy.returned[n + 1] = legacy.returned[n] + 1

====
